---- MODULE Spec2Model ----
(***************************************************************************)
(* State-machine model of network/signals.py: the per-class signal        *)
(* registry with its staged queues, targeted / general dispatch with      *)
(* superclass escalation, the cached signal replay, and SignalValue.      *)
(***************************************************************************)
EXTENDS Integers, Sequences, FiniteSets, TLC

VARIABLES
    reg,       \* class -> registry (live dicts, pending queues, children, cache)
    batch,     \* class -> subscribe/unsubscribe calls staged since its last update_state
    flushed,   \* class -> the staged calls its last update_state applied, and who was live then
    hist,      \* class -> payloads of the fresh invoke calls a cached class has received
    fired,     \* what the last operation dispatched: invoke entries and callback calls
    raised,    \* the exception the last operation ended with, or "none"
    serial,    \* number of top-level invoke calls made so far (the next payload)
    nops,      \* number of operations performed
    last,      \* the last operation performed and its arguments
    sv,        \* the SignalValue object's slots
    svDefault, \* the default the SignalValue was constructed with
    written,   \* every write attempted, in order: its value and whether it raised
    setters,   \* the bound values of the setters made by create_setter
    getter,    \* whether create_getter was called, and the slot's value at that time
    got,       \* what the last getter call returned, and after how many writes
    astar,     \* one AStarAlgorithm.find_path call: its graph, its locals, where it stands
    funnel,    \* one FunnelAlgorithm.find_path call: its portals, the Funnel, the iterator, the path
    pathfinder \* one PathfinderAlgorithm.find_path call: its configuration, the calls it made, its outcome

sigVars == <<reg, batch, flushed, hist, fired, raised, serial, nops, last>>
valVars == <<sv, svDefault, written, setters, getter, got>>
pathVars == <<astar, funnel, pathfinder>>
vars == <<reg, batch, flushed, hist, fired, raised, serial, nops, last,
          sv, svDefault, written, setters, getter, got,
          astar, funnel, pathfinder>>

-----------------------------------------------------------------------------
(* Bounds *)

MaxOps == 5
MaxWrites == 3

-----------------------------------------------------------------------------
(* Values of the Python program *)

None == -1

\* Python truth value of a target: None and 0 are falsy
Truthy(x) == x # None /\ x # 0

\* Identifiers handed to subscribe / set_parent; 0 is a falsy identifier
Ids == {0, 1, 2}

Targets == Ids \cup {None}

\* (child, parent) pairs callers register: parents are created after children
Edges == {<<0, 1>>, <<1, 2>>, <<0, 2>>}

-----------------------------------------------------------------------------
(* The signal classes *)

Classes == {"Signal", "DisconnectSignal", "CachedSignal", "ReplicableRegisteredSignal"}

\* cls.__mro__[1]
Super(k) ==
    CASE k = "DisconnectSignal" -> "Signal"
      [] k = "CachedSignal" -> "Signal"
      [] k = "ReplicableRegisteredSignal" -> "CachedSignal"
      [] OTHER -> "object"

\* the class the type register calls register_type on
TypeRoot == "Signal"

\* cls.highest_signal: set by register_type on the root, inherited below it
HighestSignal(k) == TypeRoot

\* classes whose invoke / on_subscribed are CachedSignal's
IsCached(k) == k \in {"CachedSignal", "ReplicableRegisteredSignal"}

-----------------------------------------------------------------------------
(* The callbacks listeners register: declared signals and what the body does *)

Callbacks == {"on_signal", "on_disconnect", "on_damage", "on_cached",
              "on_physics", "on_replicable", "on_hit", "on_tick", "on_error"}

\* callback.__annotations__['signals']: (signal_cls, is_context) pairs
Declared(cb) ==
    CASE cb = "on_signal" -> <<[cls |-> "Signal", ctx |-> FALSE]>>
      [] cb = "on_disconnect" -> <<[cls |-> "DisconnectSignal", ctx |-> FALSE]>>
      [] cb = "on_damage" -> <<[cls |-> "DisconnectSignal", ctx |-> TRUE]>>
      [] cb = "on_cached" -> <<[cls |-> "CachedSignal", ctx |-> FALSE]>>
      [] cb = "on_physics" -> <<[cls |-> "CachedSignal", ctx |-> TRUE]>>
      [] cb = "on_replicable" -> <<[cls |-> "ReplicableRegisteredSignal", ctx |-> FALSE]>>
      [] cb = "on_hit" -> <<[cls |-> "DisconnectSignal", ctx |-> TRUE]>>
      [] cb = "on_tick" -> <<[cls |-> "CachedSignal", ctx |-> TRUE]>>
      [] cb = "on_error" -> <<[cls |-> "DisconnectSignal", ctx |-> FALSE]>>

NoEffect == [op |-> "none", id |-> None, cb |-> "", cls |-> "", parent |-> None]

\* what the callback's body does when it is called
Effect(cb) ==
    CASE cb = "on_disconnect" ->
            [op |-> "unsubscribe", id |-> 1, cb |-> "on_signal", cls |-> "", parent |-> None]
      [] cb = "on_replicable" ->
            [op |-> "subscribe", id |-> 2, cb |-> "on_signal", cls |-> "", parent |-> None]
      [] cb = "on_damage" ->
            [op |-> "remove_parent", id |-> 0, cb |-> "", cls |-> "DisconnectSignal", parent |-> 1]
      [] cb = "on_physics" ->
            [op |-> "set_parent", id |-> 0, cb |-> "", cls |-> "CachedSignal", parent |-> 2]
      [] cb = "on_error" ->
            [op |-> "raise", id |-> None, cb |-> "", cls |-> "", parent |-> None]
      [] OTHER -> NoEffect

-----------------------------------------------------------------------------
(* Insertion-ordered dict: a sequence of [id, cb] entries with distinct ids *)

Keys(d) == {d[i].id : i \in DOMAIN d}

DictGet(d, id) == d[CHOOSE i \in DOMAIN d : d[i].id = id].cb

\* an assignment that leaves an identifier's first entry as it is
DictSetKeepsFirst(d, id, cb) ==
    IF id \in Keys(d) THEN d ELSE Append(d, [id |-> id, cb |-> cb])

DictSet(d, id, cb) ==
    IF id \in Keys(d)
    THEN [i \in DOMAIN d |-> IF d[i].id = id THEN [id |-> id, cb |-> cb] ELSE d[i]]
    ELSE Append(d, [id |-> id, cb |-> cb])

DictPop(d, id) == SelectSeq(d, LAMBDA e : e.id # id)

RECURSIVE SetToSeq(_)
SetToSeq(S) ==
    IF S = {} THEN <<>>
    ELSE LET m == CHOOSE x \in S : \A y \in S : x <= y
         IN <<m>> \o SetToSeq(S \ {m})

\* a dict from identifiers to sets of identifiers, with no keys
EmptyMap == [p \in {} |-> {}]

\* register_subtype: a class's own fresh registry
EmptyRegistry ==
    [subscribers |-> <<>>, isolated_subscribers |-> <<>>,
     to_subscribe_global |-> <<>>, to_subscribe_context |-> <<>>,
     to_unsubscribe_context |-> <<>>, to_unsubscribe_global |-> <<>>,
     children |-> EmptyMap, to_remove_child |-> {}, to_add_child |-> EmptyMap,
     cache |-> <<>>]

\* the state an operation works on; inert: callbacks are called but their bodies do nothing
World(r, b) == [reg |-> r, batch |-> b, fired |-> <<>>, err |-> "none", inert |-> FALSE]

Inert(w) == [w EXCEPT !.inert = TRUE]

-----------------------------------------------------------------------------
(* Staging: subscribe, unsubscribe, set_parent, remove_parent *)

\* subscribe: the pending dict a declaration is staged in
SubscribeQueue(is_context) ==
    IF is_context THEN "to_subscribe_context" ELSE "to_subscribe_global"

\* the pending list named after the scope
RemoveListByName(is_context) ==
    IF is_context THEN "to_unsubscribe_context" ELSE "to_unsubscribe_global"

\* unsubscribe: the pending list a declaration is staged in
RemoveList(is_context) ==
    IF is_context THEN "to_unsubscribe_global" ELSE "to_unsubscribe_context"

\* a subscribe that writes the live dict at once
StageSubscribeLive(r, id, cb, is_context) ==
    [r EXCEPT ![IF is_context THEN "isolated_subscribers" ELSE "subscribers"] = DictSet(@, id, cb)]

\* subscribe, one declared signal: data_dict[identifier] = callback, ...
StageSubscribe(r, id, cb, is_context) ==
    [r EXCEPT ![SubscribeQueue(is_context)] = DictSet(@, id, cb)]

\* set_parent: cls.to_add_child[parent_identifier].add(identifier)
StageAddChild(r, id, parent) ==
    [r EXCEPT !.to_add_child =
        [p \in DOMAIN @ \cup {parent} |->
            IF p = parent
            THEN (IF p \in DOMAIN @ THEN @[p] ELSE {}) \cup {id}
            ELSE @[p]]]

\* remove_parent: cls.to_remove_child.add((identifier, parent_identifier))
StageRemoveChild(r, id, parent) ==
    [r EXCEPT !.to_remove_child = @ \cup {<<id, parent>>}]

\* an unsubscribe that pops the live dict at once
StageUnsubscribeLive(r, id, is_context) ==
    [r EXCEPT ![IF is_context THEN "isolated_subscribers" ELSE "subscribers"] = DictPop(@, id)]

\* unsubscribe, one declared signal: stage the removal and the live edges of identifier
StageUnsubscribe(r, id, is_context) ==
    LET listed == [r EXCEPT ![RemoveList(is_context)] = Append(@, id)]
        down == IF id \in DOMAIN r.children
                THEN {<<c, id>> : c \in r.children[id]} ELSE {}
        up == {<<id, p>> : p \in {q \in DOMAIN r.children : id \in r.children[q]}}
    IN [listed EXCEPT !.to_remove_child = @ \cup down \cup up]

Note(op, id, is_context) == [op |-> op, id |-> id, ctx |-> is_context]

RECURSIVE SubscribeFrom(_, _, _, _)
SubscribeFrom(w, id, cb, i) ==
    IF i > Len(Declared(cb)) THEN w
    ELSE LET d == Declared(cb)[i]
         IN SubscribeFrom(
                [w EXCEPT !.reg[d.cls] = StageSubscribe(@, id, cb, d.ctx),
                          !.batch[d.cls] = Append(@, Note("subscribe", id, d.ctx))],
                id, cb, i + 1)

\* Signal.subscribe(identifier, callback)
SubscribeOp(w, id, cb) == SubscribeFrom(w, id, cb, 1)

RECURSIVE UnsubscribeFrom(_, _, _, _)
UnsubscribeFrom(w, id, cb, i) ==
    IF i > Len(Declared(cb)) THEN w
    ELSE LET d == Declared(cb)[i]
         IN UnsubscribeFrom(
                [w EXCEPT !.reg[d.cls] = StageUnsubscribe(@, id, d.ctx),
                          !.batch[d.cls] = Append(@, Note("unsubscribe", id, d.ctx))],
                id, cb, i + 1)

\* Signal.unsubscribe(identifier, callback)
UnsubscribeOp(w, id, cb) == UnsubscribeFrom(w, id, cb, 1)

\* cls.set_parent(identifier, parent_identifier)
SetParentOp(w, k, id, parent) == [w EXCEPT !.reg[k] = StageAddChild(@, id, parent)]

\* cls.remove_parent(identifier, parent_identifier)
RemoveParentOp(w, k, id, parent) == [w EXCEPT !.reg[k] = StageRemoveChild(@, id, parent)]

\* the body of a callback: the staging call it makes, if any
RunEffect(w, cb) ==
    LET e == IF w.inert THEN NoEffect ELSE Effect(cb)
    IN CASE e.op = "subscribe" -> SubscribeOp(w, e.id, e.cb)
         [] e.op = "unsubscribe" -> UnsubscribeOp(w, e.id, e.cb)
         [] e.op = "set_parent" -> SetParentOp(w, e.cls, e.id, e.parent)
         [] e.op = "remove_parent" -> RemoveParentOp(w, e.cls, e.id, e.parent)
         [] e.op = "raise" -> [w EXCEPT !.err = "CallbackError"]
         [] OTHER -> w

-----------------------------------------------------------------------------
(* Dispatch: invoke_signal, invoke_targets, invoke_general, invoke, invoke_parent *)

RECURSIVE GeneralFrom(_, _, _, _)

\* longest descent of invoke_targets before Python raises RecursionError
MaxDepth == Cardinality(Ids)

\* **kwargs of an invoke that was given no keyword arguments
NoKwargs == [n \in {} |-> None]

\* the extra keyword arguments of an invocation
Kwargs(inv) == IF "kwargs" \in DOMAIN inv THEN inv.kwargs ELSE NoKwargs

\* "signal" in signature(callback).parameters
AcceptsSignal(cb) == cb \in {"on_signal", "on_hit", "on_replicable"}

\* "target" in signature(callback).parameters
AcceptsTarget(cb) == cb \in {"on_damage", "on_hit", "on_physics"}

\* dict.update on a dict of keyword arguments
KwargsUpdate(old, new) ==
    [n \in DOMAIN old \cup DOMAIN new |-> IF n \in DOMAIN new THEN new[n] ELSE old[n]]

\* keyword arguments that always name the class and the target
SignalArgsAlways(k, inv, cb) ==
    KwargsUpdate([n \in {"signal", "target"} |-> IF n = "signal" THEN k ELSE inv.target],
                 Kwargs(inv))

\* invoke_signal: the keyword arguments the callback is called with
SignalArgs(k, inv, cb) ==
    LET names == (IF AcceptsSignal(cb) THEN {"signal"} ELSE {})
                     \cup (IF AcceptsTarget(cb) THEN {"target"} ELSE {})
        signal_args == [n \in names |-> IF n = "signal" THEN k ELSE inv.target]
    IN KwargsUpdate(signal_args, Kwargs(inv))

\* an entry into cls.invoke; how is "fresh" or "replay"
Entered(k, inv, how) ==
    [ev |-> "invoke", cls |-> k, id |-> None, cb |-> "",
     args |-> inv.args, target |-> inv.target, kwargs |-> Kwargs(inv), how |-> how]

\* a call of a callback; how is "targeted", "general" or "replay"
Called(k, id, cb, inv, how) ==
    [ev |-> "call", cls |-> k, id |-> id, cb |-> cb,
     args |-> inv.args, target |-> inv.target, kwargs |-> SignalArgs(k, inv, cb), how |-> how]

\* invoke_signal: call the callback with the invocation's arguments
InvokeSignal(w, k, inv, id, cb, how) ==
    IF w.err # "none" THEN w
    ELSE RunEffect([w EXCEPT !.fired = Append(@, Called(k, id, cb, inv, how))], cb)

\* an invoke_general that catches what a callback raises and goes on
GeneralFromIsolating(w, k, inv, i) ==
    IF i > Len(w.reg[k].subscribers) THEN w
    ELSE LET e == w.reg[k].subscribers[i]
             called == InvokeSignal(w, k, inv, e.id, e.cb, "general")
         IN GeneralFrom([called EXCEPT !.err = "none"], k, inv, i + 1)

\* invoke_general over cls.subscribers: calls the entries from position i on
GeneralFrom(w, k, inv, i) ==
    IF w.err # "none" \/ i > Len(w.reg[k].subscribers) THEN w
    ELSE LET e == w.reg[k].subscribers[i]
         IN GeneralFrom(InvokeSignal(w, k, inv, e.id, e.cb, "general"), k, inv, i + 1)

\* invoke_general(cls.subscribers, ...)
InvokeGeneral(w, k, inv) == GeneralFrom(w, k, inv, 1)

\* invoke_general(subscriber_data, ...): the one-entry dict of a new subscriber
InvokeNewSubscriber(w, k, inv, data) ==
    InvokeSignal(w, k, inv, data.id, data.cb, "replay")

RECURSIVE InvokeTargets(_, _, _, _, _)
RECURSIVE TargetChildren(_, _, _, _, _)

\* invoke_targets(cls.isolated_subscribers, ..., addressee=addressee)
InvokeTargets(w, k, inv, addressee, depth) ==
    IF w.err # "none" THEN w
    ELSE IF depth > MaxDepth THEN [w EXCEPT !.err = "RecursionError"]
    ELSE LET dict == w.reg[k].isolated_subscribers
             own == IF addressee \in Keys(dict)
                    THEN InvokeSignal(w, k, inv, addressee, DictGet(dict, addressee), "targeted")
                    ELSE w
         IN IF own.err = "none" /\ addressee \in DOMAIN own.reg[k].children
            THEN TargetChildren(own, k, inv, SetToSeq(own.reg[k].children[addressee]), depth)
            ELSE own

\* for target_child in cls.children[addressee]: invoke_targets(..., addressee=target_child)
TargetChildren(w, k, inv, kids, depth) ==
    IF w.err # "none" \/ kids = <<>> THEN w
    ELSE TargetChildren(InvokeTargets(w, k, inv, Head(kids), depth + 1),
                        k, inv, Tail(kids), depth)

RECURSIVE Invoke(_, _, _, _)

\* subscriber_data=None: a fresh invocation
NoData == [id |-> None, cb |-> ""]

\* an escalation that stops below the highest signal
InvokeParentBelowRoot(w, k, inv) ==
    IF w.err # "none" \/ HighestSignal(k) = k \/ HighestSignal(k) = Super(k) THEN w
    ELSE Invoke(w, Super(k), inv, NoData)

\* invoke_parent: escalate to the superclass unless cls is the highest signal
InvokeParent(w, k, inv) ==
    IF w.err # "none" \/ HighestSignal(k) = k THEN w
    ELSE Invoke(w, Super(k), inv, NoData)

\* an invoke that dispatches to the general subscribers only when it has no target
PlainDispatchEitherOr(w, k, inv) ==
    IF Truthy(inv.target) THEN InvokeTargets(w, k, inv, inv.target, 1)
    ELSE InvokeGeneral(w, k, inv)

\* Signal.invoke: targeted dispatch when the target is true, then general dispatch
PlainDispatch(w, k, inv) ==
    LET t == IF Truthy(inv.target) THEN InvokeTargets(w, k, inv, inv.target, 1) ELSE w
    IN InvokeGeneral(t, k, inv)

\* CachedSignal.invoke, fresh: cache, then targeted and general dispatch
CachedDispatch(w, k, inv) ==
    LET c == [w EXCEPT !.reg[k].cache = Append(@, inv)]
        t == InvokeTargets(c, k, inv, inv.target, 1)
    IN InvokeGeneral(t, k, inv)

\* cls.invoke(*args, target=target, subscriber_data=data)
Invoke(w, k, inv, data) ==
    IF w.err # "none" THEN w
    ELSE LET e == [w EXCEPT !.fired = Append(@, Entered(k, inv, IF data = NoData THEN "fresh" ELSE "replay"))]
             d == IF ~IsCached(k) THEN PlainDispatch(e, k, inv)
                  ELSE IF data = NoData THEN CachedDispatch(e, k, inv)
                  ELSE InvokeNewSubscriber(e, k, inv, data)
         IN InvokeParent(d, k, inv)

-----------------------------------------------------------------------------
(* update_state *)

\* CachedSignal.on_subscribed: for ... in cls.cache: invoke(..., subscriber_data=...)
RECURSIVE ReplayFrom(_, _, _, _)
ReplayFrom(w, k, data, i) ==
    IF w.err # "none" \/ i > Len(w.reg[k].cache) THEN w
    ELSE ReplayFrom(Invoke(w, k, w.reg[k].cache[i], data), k, data, i + 1)

\* a replay that starts with the newest cached invocation
RECURSIVE ReplayDownFrom(_, _, _, _)
ReplayDownFrom(w, k, data, i) ==
    IF w.err # "none" \/ i < 1 THEN w
    ELSE ReplayDownFrom(Invoke(w, k, w.reg[k].cache[i], data), k, data, i - 1)

OnSubscribedNewestFirst(w, k, is_contextual, data) ==
    IF ~IsCached(k) \/ is_contextual THEN w
    ELSE ReplayDownFrom(w, k, data, Len(w.reg[k].cache))

\* cls.on_subscribed(is_contextual, subscriber, data)
OnSubscribed(w, k, is_contextual, data) ==
    IF ~IsCached(k) \/ is_contextual THEN w
    ELSE ReplayFrom(w, k, data, 1)

\* while to_subscribe_global: popitem, add to subscribers, on_subscribed(False, ...)
RECURSIVE ApplyGlobal(_, _)
ApplyGlobal(w, k) ==
    LET q == w.reg[k].to_subscribe_global
    IN IF w.err # "none" \/ q = <<>> THEN w
       ELSE LET e == q[Len(q)]
                added == [w EXCEPT !.reg[k].to_subscribe_global = SubSeq(q, 1, Len(q) - 1),
                                   !.reg[k].subscribers = DictSet(@, e.id, e.cb)]
            IN ApplyGlobal(OnSubscribed(added, k, FALSE, e), k)

\* while to_subscribe_context: popitem, add to isolated_subscribers, on_subscribed(True, ...)
RECURSIVE ApplyContext(_, _)
ApplyContext(w, k) ==
    LET q == w.reg[k].to_subscribe_context
    IN IF w.err # "none" \/ q = <<>> THEN w
       ELSE LET e == q[Len(q)]
                added == [w EXCEPT !.reg[k].to_subscribe_context = SubSeq(q, 1, Len(q) - 1),
                                   !.reg[k].isolated_subscribers = DictSet(@, e.id, e.cb)]
            IN ApplyContext(OnSubscribed(added, k, TRUE, e), k)

RECURSIVE PopAll(_, _)
PopAll(d, keys) ==
    IF keys = <<>> THEN d ELSE PopAll(DictPop(d, Head(keys)), Tail(keys))

\* remove old subscribers: both lists are popped from their dict and cleared
RemoveOld(w, k) ==
    IF w.err # "none" THEN w
    ELSE [w EXCEPT
            !.reg[k].subscribers = PopAll(@, w.reg[k].to_unsubscribe_context),
            !.reg[k].to_unsubscribe_context = <<>>,
            !.reg[k].isolated_subscribers = PopAll(@, w.reg[k].to_unsubscribe_global),
            !.reg[k].to_unsubscribe_global = <<>>]

\* dict.update: the keys of new replace those of old
DictUpdate(old, new) ==
    [p \in DOMAIN old \cup DOMAIN new |-> IF p \in DOMAIN new THEN new[p] ELSE old[p]]

\* add new children: cls.children.update(cls.to_add_child); cls.to_add_child.clear()
AddChildren(w, k) ==
    IF w.err # "none" THEN w
    ELSE [w EXCEPT !.reg[k].children = DictUpdate(@, w.reg[k].to_add_child),
                   !.reg[k].to_add_child = EmptyMap]

\* a removal that leaves the parent's entry in place when its last child goes
RemoveEdgeKeepsParent(w, k, edge) ==
    LET ch == w.reg[k].children
        child == edge[1]
        parent == edge[2]
    IN IF parent \notin DOMAIN ch \/ child \notin ch[parent]
       THEN [w EXCEPT !.err = "KeyError"]
       ELSE [w EXCEPT !.reg[k].children[parent] = @ \ {child}]

\* one (child, parent) of to_remove_child: KeyError when the edge is not live
RemoveEdge(w, k, edge) ==
    LET ch == w.reg[k].children
        child == edge[1]
        parent == edge[2]
    IN IF parent \notin DOMAIN ch \/ child \notin ch[parent]
       THEN [w EXCEPT !.err = "KeyError"]
       ELSE IF ch[parent] = {child}
       THEN [w EXCEPT !.reg[k].children = [p \in DOMAIN ch \ {parent} |-> ch[p]]]
       ELSE [w EXCEPT !.reg[k].children[parent] = @ \ {child}]

\* remove old children, in the order the set is iterated; cleared when none failed
RECURSIVE RemoveChildren(_, _, _)
RemoveChildren(w, k, order) ==
    IF w.err # "none" THEN w
    ELSE IF order = <<>> THEN [w EXCEPT !.reg[k].to_remove_child = {}]
    ELSE RemoveChildren(RemoveEdge(w, k, Head(order)), k, Tail(order))

\* the orders a set can be iterated in
Orderings(S) ==
    {s \in [1..Cardinality(S) -> S] : \A i, j \in 1..Cardinality(S) : s[i] = s[j] => i = j}

\* cls.update_state()
UpdateStateOp(w, k, order) ==
    RemoveChildren(AddChildren(RemoveOld(ApplyContext(ApplyGlobal(w, k), k), k), k), k, order)

-----------------------------------------------------------------------------
(* The state machine *)

\* payloads of the fresh invocations of cached classes among the events of a pass
RECURSIVE HistAfter(_, _)
HistAfter(h, events) ==
    IF events = <<>> THEN h
    ELSE LET e == Head(events)
         IN HistAfter(IF e.ev = "invoke" /\ e.how = "fresh" /\ IsCached(e.cls)
                      THEN [h EXCEPT ![e.cls] = Append(@, [args |-> e.args, target |-> e.target])]
                      ELSE h,
                      Tail(events))

\* the record of a call: the operation, the class it is called on, its arguments
Call(op, k, id, cb, other) == [op |-> op, cls |-> k, id |-> id, cb |-> cb, other |-> other]

Done(w, b, call) ==
    /\ nops < MaxOps
    /\ last' = call
    /\ reg' = w.reg
    /\ batch' = b
    /\ flushed' = [k \in Classes |->
                       IF b[k] = <<>> /\ w.batch[k] # <<>>
                       THEN [notes |-> w.batch[k],
                             global |-> Keys(reg[k].subscribers),
                             context |-> Keys(reg[k].isolated_subscribers)]
                       ELSE flushed[k]]
    /\ hist' = HistAfter(hist, w.fired)
    /\ fired' = w.fired
    /\ raised' = w.err
    /\ nops' = nops + 1
    /\ UNCHANGED <<valVars, pathVars>>

Subscribe(id, cb) ==
    /\ LET w == SubscribeOp(World(reg, batch), id, cb)
       IN Done(w, w.batch, Call("subscribe", "Signal", id, cb, None))
    /\ UNCHANGED serial

Unsubscribe(id, cb) ==
    /\ LET w == UnsubscribeOp(World(reg, batch), id, cb)
       IN Done(w, w.batch, Call("unsubscribe", "Signal", id, cb, None))
    /\ UNCHANGED serial

SetParent(k, id, parent) ==
    /\ LET w == SetParentOp(World(reg, batch), k, id, parent)
       IN Done(w, w.batch, Call("set_parent", k, id, "", parent))
    /\ UNCHANGED serial

RemoveParent(k, id, parent) ==
    /\ LET w == RemoveParentOp(World(reg, batch), k, id, parent)
       IN Done(w, w.batch, Call("remove_parent", k, id, "", parent))
    /\ UNCHANGED serial

UpdateState(k) ==
    /\ \E order \in Orderings(reg[k].to_remove_child) :
          LET w == UpdateStateOp(World(reg, batch), k, order)
          IN Done(w, [w.batch EXCEPT ![k] = <<>>], Call("update_state", k, None, "", None))
    /\ UNCHANGED serial

InvokeSignalClass(k, target) ==
    /\ LET w == Invoke(World(reg, batch), k, [args |-> serial + 1, target |-> target], NoData)
       IN Done(w, w.batch, Call("invoke", k, None, "", target))
    /\ serial' = serial + 1

\* cls.invoke(args, target=target, **kwargs)
InvokeKwargs(k, target, kwargs) ==
    /\ LET w == Invoke(World(reg, batch), k,
                       [args |-> serial + 1, target |-> target, kwargs |-> kwargs], NoData)
       IN Done(w, w.batch, Call("invoke", k, None, "", target))
    /\ serial' = serial + 1

\* no getter made yet, no getter called yet
NoGetter == [made |-> FALSE, seen |-> None]
NotRead == [value |-> None, at |-> -1]

InitSignals ==
    /\ reg = [k \in Classes |-> EmptyRegistry]
    /\ batch = [k \in Classes |-> <<>>]
    /\ flushed = [k \in Classes |-> [notes |-> <<>>, global |-> {}, context |-> {}]]
    /\ hist = [k \in Classes |-> <<>>]
    /\ fired = <<>>
    /\ raised = "none"
    /\ serial = 0
    /\ nops = 0
    /\ last = Call("none", "", None, "", None)

InitValueIdle ==
    /\ sv = [_single_value |-> FALSE, _value |-> None, _changed |-> FALSE]
    /\ svDefault = None
    /\ written = <<>>
    /\ setters = {}
    /\ getter = NoGetter
    /\ got = NotRead

\* no path request made
InitPathIdle ==
    /\ astar = [pc |-> "idle"]
    /\ funnel = [pc |-> "idle"]
    /\ pathfinder = [pc |-> "idle"]

Init == InitSignals /\ InitValueIdle /\ InitPathIdle

\* the calls a client makes within a universe u of inputs
NextIn(u) ==
    \/ \E s \in u.subs : Subscribe(s[1], s[2])
    \/ \E s \in u.unsubs : Unsubscribe(s[1], s[2])
    \/ \E k \in u.edgeClasses, e \in u.adds : SetParent(k, e[1], e[2])
    \/ \E k \in u.edgeClasses, e \in u.removes : RemoveParent(k, e[1], e[2])
    \/ \E k \in u.updated : UpdateState(k)
    \/ \E k \in u.invoked, t \in u.targets : InvokeSignalClass(k, t)

\* a listener with a global and a contextual callback on one plain class, and a second listener
RegistryInputs ==
    [subs |-> {<<2, "on_disconnect">>, <<1, "on_disconnect">>, <<2, "on_damage">>},
     unsubs |-> {<<2, "on_disconnect">>, <<1, "on_disconnect">>, <<2, "on_damage">>},
     edgeClasses |-> {"DisconnectSignal"},
     adds |-> {<<0, 1>>, <<1, 2>>},
     removes |-> {<<0, 1>>, <<1, 2>>},
     updated |-> {"DisconnectSignal"},
     invoked |-> {"DisconnectSignal"},
     targets |-> {None, 2}]

Next == NextIn(RegistryInputs)

Spec == Init /\ [][Next]_vars

\* listeners on a plain class and on the root, a three-level tree, every kind of target
DispatchInputs ==
    [subs |-> {<<2, "on_disconnect">>, <<1, "on_signal">>, <<0, "on_damage">>},
     unsubs |-> {<<0, "on_damage">>},
     edgeClasses |-> {"DisconnectSignal"},
     adds |-> Edges,
     removes |-> {<<0, 2>>},
     updated |-> {"DisconnectSignal", "Signal"},
     invoked |-> {"DisconnectSignal", "ReplicableRegisteredSignal"},
     targets |-> {None, 0, 2}]

NextDispatch == NextIn(DispatchInputs)

SpecDispatch == Init /\ [][NextDispatch]_vars

\* listeners on the cached classes and on the root
CacheInputs ==
    [subs |-> {<<1, "on_replicable">>, <<1, "on_cached">>, <<2, "on_cached">>, <<0, "on_physics">>},
     unsubs |-> {<<1, "on_cached">>},
     edgeClasses |-> {"CachedSignal"},
     adds |-> {<<0, 2>>},
     removes |-> {<<0, 2>>},
     updated |-> {"CachedSignal", "ReplicableRegisteredSignal"},
     invoked |-> {"CachedSignal", "ReplicableRegisteredSignal"},
     targets |-> {None, 2}]

NextCache == NextIn(CacheInputs)

SpecCache == Init /\ [][NextCache]_vars

-----------------------------------------------------------------------------
(* Claims about the signal registry and dispatch *)

\* the live registry of every class
LiveOf(r) ==
    [k \in Classes |->
        [subscribers |-> r[k].subscribers,
         isolated_subscribers |-> r[k].isolated_subscribers,
         children |-> r[k].children]]

DeclaredClasses(cb) == {Declared(cb)[i].cls : i \in DOMAIN Declared(cb)}

Count(events, Test(_)) == Len(SelectSeq(events, Test))

\* C1: subscribe, unsubscribe, set_parent and remove_parent change nothing but
\* the pending queues of the classes they name: the live subscribers,
\* isolated_subscribers and children of every class stay as they were, and a
\* step that changes the live registry is an update_state
StagingKeepsLiveRegistry ==
    [][/\ last'.op \in {"subscribe", "unsubscribe"} =>
            /\ LiveOf(reg') = LiveOf(reg)
            /\ \A k \in Classes \ DeclaredClasses(last'.cb) : reg'[k] = reg[k]
       /\ last'.op \in {"set_parent", "remove_parent"} =>
            /\ LiveOf(reg') = LiveOf(reg)
            /\ \A k \in Classes \ {last'.cls} : reg'[k] = reg[k]
       /\ LiveOf(reg') # LiveOf(reg) => last'.op = "update_state"]_vars

\* C1 witness: a class with live subscribers and children while a subscribe, an
\* unsubscribe and an edge removal are staged on it
StagedBesideLiveRegistry ==
    \E k \in Classes :
        /\ reg[k].subscribers # <<>>
        /\ reg[k].children # EmptyMap
        /\ reg[k].to_subscribe_global # <<>>
        /\ reg[k].to_unsubscribe_context # <<>>
        /\ reg[k].to_remove_child # {}

\* C2: what an invoke call fires, escalation included, is what the same call
\* fires on the registry as it was when the call started with callbacks that
\* request nothing; the call leaves the live registry as it was, so what its
\* callbacks staged shows only after an update_state
DispatchSeesFrozenRegistry ==
    [][last'.op = "invoke" =>
            /\ fired' = Invoke(Inert(World(reg, batch)), last'.cls,
                               [args |-> serial', target |-> last'.other], NoData).fired
            /\ LiveOf(reg') = LiveOf(reg)]_vars

\* C2 witness: on_disconnect, called for DisconnectSignal, has staged the
\* unsubscribe of listener 1 from Signal, and the same pass still called
\* listener 1 on escalation; listener 1 is still live
CallbackStagedDuringDispatch ==
    /\ \E i, j \in DOMAIN fired :
          /\ i < j
          /\ fired[i].ev = "call" /\ fired[i].cb = "on_disconnect"
          /\ fired[j].ev = "call" /\ fired[j].cls = "Signal" /\ fired[j].id = 1
    /\ 1 \in Keys(reg["Signal"].subscribers)
    /\ reg["Signal"].to_unsubscribe_context = <<1>>

\* whether id is subscribed once the staged calls are applied one at a time
NetPresent(notes, id, is_context, before) ==
    LET mine == SelectSeq(notes, LAMBDA n : n.id = id /\ n.ctx = is_context)
    IN IF mine = <<>> THEN before ELSE mine[Len(mine)].op = "subscribe"

\* C3: after update_state an identifier is subscribed in a scope iff the last
\* call staged for it in that scope was a subscribe, or none was staged and it
\* was subscribed before
BatchNetEffect ==
    [][last'.op = "update_state" =>
            LET k == last'.cls
            IN  \A id \in Ids :
                    /\ id \in Keys(reg'[k].subscribers)
                         <=> NetPresent(batch[k], id, FALSE, id \in Keys(reg[k].subscribers))
                    /\ id \in Keys(reg'[k].isolated_subscribers)
                         <=> NetPresent(batch[k], id, TRUE,
                                        id \in Keys(reg[k].isolated_subscribers))]_vars

Has(notes, n) == \E i \in DOMAIN notes : notes[i] = n

\* C4: an update_state that applies just the subscribe of a callback makes the
\* identifier live in the callback's scope, one that applies just its
\* unsubscribe makes it absent there, and both leave the other scope's dict as
\* it was; an entry is removed only by an unsubscribe of its own scope
ScopedRoundTrip ==
    [][last'.op = "update_state" =>
            LET k == last'.cls
            IN  \A id \in Ids :
                    /\ batch[k] = <<Note("subscribe", id, FALSE)>> =>
                          /\ id \in Keys(reg'[k].subscribers)
                          /\ reg'[k].isolated_subscribers = reg[k].isolated_subscribers
                    /\ batch[k] = <<Note("unsubscribe", id, FALSE)>> =>
                          /\ id \notin Keys(reg'[k].subscribers)
                          /\ reg'[k].isolated_subscribers = reg[k].isolated_subscribers
                    /\ batch[k] = <<Note("subscribe", id, TRUE)>> =>
                          /\ id \in Keys(reg'[k].isolated_subscribers)
                          /\ reg'[k].subscribers = reg[k].subscribers
                    /\ batch[k] = <<Note("unsubscribe", id, TRUE)>> =>
                          /\ id \notin Keys(reg'[k].isolated_subscribers)
                          /\ reg'[k].subscribers = reg[k].subscribers
                    /\ (id \in Keys(reg[k].subscribers)
                            /\ ~Has(batch[k], Note("unsubscribe", id, FALSE))) =>
                          id \in Keys(reg'[k].subscribers)
                    /\ (id \in Keys(reg[k].isolated_subscribers)
                            /\ ~Has(batch[k], Note("unsubscribe", id, TRUE))) =>
                          id \in Keys(reg'[k].isolated_subscribers)]_vars

\* C4 witness: listener 2, live in both scopes of a class, after the
\* update_state that applied just the unsubscribe of its global callback:
\* gone from subscribers, still in isolated_subscribers
GlobalRoundTripDone ==
    \E k \in Classes :
        /\ flushed[k].notes = <<Note("unsubscribe", 2, FALSE)>>
        /\ 2 \in flushed[k].global /\ 2 \in flushed[k].context
        /\ batch[k] = <<>>
        /\ 2 \notin Keys(reg[k].subscribers)
        /\ 2 \in Keys(reg[k].isolated_subscribers)

\* the parents of c in a children dict
Parents(ch, c) == {p \in DOMAIN ch : c \in ch[p]}

\* the identifiers of S and everything below them
RECURSIVE Descend(_, _)
Descend(ch, S) ==
    LET next == S \cup UNION {ch[p] : p \in S \cap DOMAIN ch}
    IN IF next = S THEN S ELSE Descend(ch, next)

\* no identifier has two parents and none is below itself
IsForest(ch) ==
    /\ \A c \in Ids : Cardinality(Parents(ch, c)) <= 1
    /\ \A p \in DOMAIN ch : p \notin Descend(ch, ch[p])

\* how many times the contextual subscriber at id was called by class k
TargetedCalls(events, k, id) ==
    Count(events, LAMBDA e : e.ev = "call" /\ e.how = "targeted" /\ e.cls = k /\ e.id = id)

\* C5: with the live children a forest, invoke(target=T) with T other than
\* None calls the contextual subscriber of every identifier that is T or below
\* T exactly once and no other contextual subscriber; without a target no
\* contextual subscriber is called
TargetedDispatchReachesTree ==
    [][(last'.op = "invoke" /\ IsForest(reg[last'.cls].children)) =>
            LET k == last'.cls
                t == last'.other
            IN \A id \in Keys(reg[k].isolated_subscribers) :
                    TargetedCalls(fired', k, id) =
                        (IF t # None /\ id \in Descend(reg[k].children, {t}) THEN 1 ELSE 0)]_vars

\* how many times the global subscriber (id, cb) was called by class k
GeneralCalls(events, k, id, cb) ==
    Count(events, LAMBDA e : e.ev = "call" /\ e.how = "general"
                                /\ e.cls = k /\ e.id = id /\ e.cb = cb)

\* how many fresh invoke calls class k received
FreshInvokes(events, k) ==
    Count(events, LAMBDA e : e.ev = "invoke" /\ e.how = "fresh" /\ e.cls = k)

\* C6: an invoke call, whatever its target, calls every live global subscriber
\* of the invoked class once, and of every class it escalates to once for
\* each fresh invoke the class receives
GeneralDispatchUnconditional ==
    [][last'.op = "invoke" =>
            /\ FreshInvokes(fired', last'.cls) = 1
            /\ \A k \in Classes : \A i \in DOMAIN reg[k].subscribers :
                  GeneralCalls(fired', k, reg[k].subscribers[i].id, reg[k].subscribers[i].cb)
                      = FreshInvokes(fired', k)]_vars

\* C6 witness: an invoke with a target that called a contextual subscriber and
\* a global subscriber of the invoked class, and one with the false target 0
\* would do: here the target is 2
GeneralBesideTargeted ==
    /\ last.op = "invoke" /\ last.other = 2
    /\ \E i, j \in DOMAIN fired :
          /\ fired[i].ev = "call" /\ fired[i].how = "targeted" /\ fired[i].cls = last.cls
          /\ fired[j].ev = "call" /\ fired[j].how = "general" /\ fired[j].cls = last.cls

\* the class statements: a class, then its bases up to Signal
RECURSIVE Chain(_)
Chain(k) == IF k = "Signal" THEN <<k>> ELSE <<k>> \o Chain(Super(k))

Enters(events) == SelectSeq(events, LAMBDA e : e.ev = "invoke")

\* every callback call of a pass is made by the class entered last before it
CallsFollowEntry(events) ==
    \A i \in DOMAIN events :
        events[i].ev = "call" =>
            \E j \in 1..(i - 1) :
                /\ events[j].ev = "invoke" /\ events[j].cls = events[i].cls
                /\ \A m \in (j + 1)..(i - 1) : events[m].ev = "call"

\* C7: invoke on a class enters that class, then each superclass in turn up
\* to and including Signal, each once with the same arguments and target, and
\* no other class; it ends without an error
EscalatesUpTheChain ==
    [][last'.op = "invoke" =>
            LET en == Enters(fired')
                chain == Chain(last'.cls)
            IN /\ Len(en) = Len(chain)
               /\ \A i \in DOMAIN en :
                     en[i] = Entered(chain[i], [args |-> serial', target |-> last'.other], "fresh")
               /\ CallsFollowEntry(fired')
               /\ raised' = "none"]_vars

\* C7 witness: an invoke of ReplicableRegisteredSignal with a target that went
\* through CachedSignal to Signal, where a global subscriber was called last
EscalatedToRoot ==
    /\ last.op = "invoke" /\ last.cls = "ReplicableRegisteredSignal" /\ last.other # None
    /\ Len(Enters(fired)) = 3
    /\ fired[Len(fired)].ev = "call" /\ fired[Len(fired)].cls = "Signal"

\* the calls of listener id's callbacks made by class k
Deliveries(events, k, id) ==
    SelectSeq(events, LAMBDA e : e.ev = "call" /\ e.cls = k /\ e.id = id)

Payloads(events) == [i \in DOMAIN events |-> [args |-> events[i].args, target |-> events[i].target]]

-----------------------------------------------------------------------------
(* SignalValue *)

\* values given as default and written
Values == {None, 1, 2}

\* SignalValue(default, single_value)
NewSignalValue(default, single_value) ==
    [_single_value |-> single_value, _value |-> default, _changed |-> FALSE]

\* a setter that takes a value other than None for "already set"
SetterResultChecksValue(s, v) ==
    IF s._single_value /\ s._value # None
    THEN [sv |-> s, raised |-> TRUE]
    ELSE [sv |-> [s EXCEPT !._value = v, !._changed = TRUE], raised |-> FALSE]

\* a setter that marks a change only when the value differs
SetterResultMarksDifference(s, v) ==
    IF s._single_value /\ s._changed
    THEN [sv |-> s, raised |-> TRUE]
    ELSE [sv |-> [s EXCEPT !._value = v, !._changed = (v # s._value)], raised |-> FALSE]

\* the value setter: raises when single_value and already changed, else overwrites
SetterResult(s, v) ==
    IF s._single_value /\ s._changed
    THEN [sv |-> s, raised |-> TRUE]
    ELSE [sv |-> [s EXCEPT !._value = v, !._changed = TRUE], raised |-> FALSE]

\* the wrapper of create_getter: return self.value
GetterResult(s, seen) == s._value

Write(v, via) ==
    /\ Len(written) < MaxWrites
    /\ LET r == SetterResult(sv, v)
       IN /\ sv' = r.sv
          /\ written' = Append(written, [value |-> v, raised |-> r.raised, via |-> via])
    /\ UNCHANGED <<svDefault, setters, getter, got>>

\* signal_value.value = v
SetValue(v) == Write(v, "value") /\ UNCHANGED <<sigVars, pathVars>>

\* signal_value.create_setter(v)
CreateSetter(v) ==
    /\ v \notin setters
    /\ setters' = setters \cup {v}
    /\ UNCHANGED <<sv, svDefault, written, getter, got>>
    /\ UNCHANGED <<sigVars, pathVars>>

\* calling a wrapper made by create_setter(v)
CallSetter(v) == v \in setters /\ Write(v, "setter") /\ UNCHANGED <<sigVars, pathVars>>

\* signal_value.create_getter()
CreateGetter ==
    /\ ~getter.made
    /\ getter' = [made |-> TRUE, seen |-> sv._value]
    /\ UNCHANGED <<sv, svDefault, written, setters, got>>
    /\ UNCHANGED <<sigVars, pathVars>>

\* calling the wrapper made by create_getter
CallGetter ==
    /\ getter.made
    /\ got' = [value |-> GetterResult(sv, getter.seen), at |-> Len(written)]
    /\ UNCHANGED <<sv, svDefault, written, setters, getter>>
    /\ UNCHANGED <<sigVars, pathVars>>

InitValue ==
    /\ \E d \in Values, single \in BOOLEAN :
          /\ sv = NewSignalValue(d, single)
          /\ svDefault = d
    /\ written = <<>>
    /\ setters = {}
    /\ getter = NoGetter
    /\ got = NotRead

NextValue ==
    \/ \E v \in Values : SetValue(v)
    \/ \E v \in Values : CreateSetter(v)
    \/ \E v \in Values : CallSetter(v)
    \/ CreateGetter
    \/ CallGetter

\* the signal classes registered and unused, one SignalValue constructed
InitSignalValue == InitSignals /\ InitValue /\ InitPathIdle

SpecValue == InitSignalValue /\ [][NextValue]_vars

-----------------------------------------------------------------------------
(* Claims about SignalValue, checked under SpecValue *)

\* C9: a single_value SignalValue accepts exactly its first write, default or not:
\* every later write, by the value setter or a made setter, raises, and the
\* slot keeps the first written value with changed set
SingleValueWritesOnce ==
    sv._single_value =>
        /\ \A i \in DOMAIN written : written[i].raised <=> i > 1
        /\ IF written = <<>>
           THEN sv._value = svDefault /\ ~sv._changed
           ELSE sv._value = written[1].value /\ sv._changed

\* C9 witness: constructed with a default, written once through a made setter,
\* then a different value refused through the value setter
SingleValueSecondWriteRefused ==
    /\ sv._single_value
    /\ svDefault # None
    /\ Len(written) >= 2
    /\ written[1].via = "setter" /\ ~written[1].raised
    /\ written[2].via = "value" /\ written[2].raised
    /\ written[2].value # written[1].value
    /\ sv._value = written[1].value

\* C10: a SignalValue without single_value takes every write: the slot holds the
\* last written value, changed is false until the first write and true after,
\* and a getter call returns the value current when it is called
MultiValueKeepsLastWrite ==
    ~sv._single_value =>
        /\ \A i \in DOMAIN written : ~written[i].raised
        /\ IF written = <<>>
           THEN sv._value = svDefault /\ ~sv._changed
           ELSE sv._value = written[Len(written)].value /\ sv._changed
        /\ got.at >= 0 =>
              got.value = (IF got.at = 0 THEN svDefault ELSE written[got.at].value)

\* C10 witness: three writes, the getter made before them and called after them
MultiValueThreeWritesRead ==
    /\ ~sv._single_value
    /\ Len(written) = 3
    /\ written[1].value # written[2].value
    /\ written[3].value = svDefault
    /\ getter.made /\ getter.seen = svDefault
    /\ got.at = 2 /\ got.value = written[2].value /\ got.value # getter.seen


-----------------------------------------------------------------------------
(* A* search: AStarAlgorithm.find_path over a graph of AStarNode objects *)

\* largest edge cost of the graphs searched
MaxCost == 3

\* the node objects: find_path is called with start 1 and goal 4; 5 is a dead end
Nodes == 1..5

\* the directed edges a graph may have; each is absent or has a cost
GraphEdges == {<<1, 2>>, <<1, 3>>, <<2, 3>>, <<2, 4>>, <<3, 4>>, <<3, 5>>}

\* current.neighbours, for a node of a graph with edge costs cost
Neighbours(cost, n) == {m \in Nodes : <<n, m>> \in DOMAIN cost /\ cost[<<n, m>>] # None}

\* neighbour.get_g_score_from(current): the cost of the edge current -> neighbour
GScoreFrom(g, neighbour, current) == g.cost[<<current, neighbour>>]

\* goal.get_h_score_from(neighbour): the heuristic estimate from neighbour to the goal
HScoreFrom(g, neighbour) == g.h[neighbour]

\* more than any path costs
Inf == (MaxCost + 1) * Cardinality(Nodes)

Least(S) == CHOOSE x \in S : \A y \in S : x <= y

\* cost of the cheapest path from every node to goal, by repeated relaxation
RECURSIVE CheapestTo(_, _, _)
CheapestTo(cost, d, rounds) ==
    IF rounds = 0 THEN d
    ELSE CheapestTo(cost,
                    [n \in Nodes |->
                        Least({d[n]} \cup {cost[<<n, m>>] + d[m] : m \in Neighbours(cost, n)})],
                    rounds - 1)

ShortestCost(cost, goal) ==
    CheapestTo(cost, [n \in Nodes |-> IF n = goal THEN 0 ELSE Inf], Cardinality(Nodes))

\* the heuristics goal nodes answer with: none, the exact remaining cost, and
\* one that is exact at node 2 and zero elsewhere; none overestimates
Heuristics(cost, goal) ==
    LET d == ShortestCost(cost, goal)
        exact == [n \in Nodes |-> IF d[n] >= Inf THEN 0 ELSE d[n]]
    IN {[n \in Nodes |-> 0],
        exact,
        [n \in Nodes |-> IF n = 2 THEN exact[n] ELSE 0]}

\* the edge costs of the graphs searched
Costs == [GraphEdges -> (1..MaxCost) \cup {None}]

\* is_finished as the claims take it: the popped node is the goal node
IsFinished(current, goal) == current = goal

\* a < b for two (f, node) tuples: "lt", "ge", or "TypeError" when the f tie
\* and the two nodes are of a class without an order; ordered nodes compare
\* by their number
TupleCompare(a, b, ordered) ==
    IF a[1] # b[1] THEN (IF a[1] < b[1] THEN "lt" ELSE "ge")
    ELSE IF a[2] = b[2] THEN "ge"
    ELSE IF ~ordered THEN "TypeError"
    ELSE IF a[2] < b[2] THEN "lt" ELSE "ge"

\* heapq: move newitem from pos towards the root while it is less than its parent
RECURSIVE SiftDown(_, _, _, _)
SiftDown(heap, pos, newitem, ordered) ==
    IF pos = 1 THEN [heap |-> [heap EXCEPT ![pos] = newitem], err |-> "none"]
    ELSE LET parentpos == pos \div 2
             c == TupleCompare(newitem, heap[parentpos], ordered)
         IN IF c = "TypeError" THEN [heap |-> heap, err |-> c]
            ELSE IF c = "lt"
            THEN SiftDown([heap EXCEPT ![pos] = heap[parentpos]], parentpos, newitem, ordered)
            ELSE [heap |-> [heap EXCEPT ![pos] = newitem], err |-> "none"]

\* heapq: bubble the smaller child up from pos to a leaf, then sift newitem down
RECURSIVE SiftUp(_, _, _, _)
SiftUp(heap, pos, newitem, ordered) ==
    LET childpos == 2 * pos
        rightpos == childpos + 1
    IN IF childpos > Len(heap) THEN SiftDown(heap, pos, newitem, ordered)
       ELSE LET c == IF rightpos <= Len(heap)
                     THEN TupleCompare(heap[childpos], heap[rightpos], ordered)
                     ELSE "lt"
                child == IF c = "lt" THEN childpos ELSE rightpos
            IN IF c = "TypeError" THEN [heap |-> heap, err |-> c]
               ELSE SiftUp([heap EXCEPT ![pos] = heap[child]], child, newitem, ordered)

\* heappush(f_scored, item)
HeapPush(heap, item, ordered) == SiftDown(Append(heap, item), Len(heap) + 1, item, ordered)

\* heappop(f_scored): the root, and the heap with its last item sifted in from the root
HeapPop(heap, ordered) ==
    LET lastelt == heap[Len(heap)]
        rest == SubSeq(heap, 1, Len(heap) - 1)
    IN IF rest = <<>> THEN [item |-> lastelt, heap |-> rest, err |-> "none"]
       ELSE LET r == SiftUp(rest, 1, lastelt, ordered)
            IN [item |-> heap[1], heap |-> r.heap, err |-> r.err]

\* a walk along the predecessors that appends each node it comes to
RECURSIVE ReconstructPathAppending(_, _, _)
ReconstructPathAppending(node, path, result) ==
    IF node = None \/ Len(result) > Cardinality(Nodes) THEN result
    ELSE ReconstructPathAppending(path[node], path, result \o <<node>>)

\* reconstruct_path: follow path.get from node, prepending; a node object is true
RECURSIVE ReconstructPath(_, _, _)
ReconstructPath(node, path, result) ==
    IF node = None \/ Len(result) > Cardinality(Nodes) THEN result
    ELSE ReconstructPath(path[node], path, <<node>> \o result)

\* a relaxation that trusts the g_score it finds on a node it has not opened
RelaxTrustingScores(a, current, neighbour) ==
    IF neighbour \in a.closed_set THEN a
    ELSE LET tentative_g_score ==
                 a.g_score[current] + GScoreFrom(a.graph, neighbour, current)
             pushed == HeapPush(a.f_scored,
                                <<tentative_g_score + HScoreFrom(a.graph, neighbour), neighbour>>,
                                a.graph.ordered)
         IN IF (neighbour \notin a.open_set /\ a.g_score[neighbour] = 0)
                  \/ tentative_g_score < a.g_score[neighbour]
            THEN IF pushed.err # "none"
                 THEN [a EXCEPT !.path[neighbour] = current,
                                !.g_score[neighbour] = tentative_g_score,
                                !.pc = "raised", !.err = pushed.err]
                 ELSE [a EXCEPT !.path[neighbour] = current,
                                !.g_score[neighbour] = tentative_g_score,
                                !.f_scored = pushed.heap,
                                !.open_set = @ \cup {neighbour}]
            ELSE a

\* the body of `for neighbour in current.neighbours` for one neighbour
Relax(a, current, neighbour) ==
    IF neighbour \in a.closed_set THEN a
    ELSE LET tentative_g_score ==
                 a.g_score[current] + GScoreFrom(a.graph, neighbour, current)
             pushed == HeapPush(a.f_scored,
                                <<tentative_g_score + HScoreFrom(a.graph, neighbour), neighbour>>,
                                a.graph.ordered)
         IN IF neighbour \notin a.open_set \/ tentative_g_score < a.g_score[neighbour]
            THEN IF pushed.err # "none"
                 THEN [a EXCEPT !.path[neighbour] = current,
                                !.g_score[neighbour] = tentative_g_score,
                                !.pc = "raised", !.err = pushed.err]
                 ELSE [a EXCEPT !.path[neighbour] = current,
                                !.g_score[neighbour] = tentative_g_score,
                                !.f_scored = pushed.heap,
                                !.open_set = @ \cup {neighbour}]
            ELSE a

RECURSIVE RelaxAll(_, _, _)
RelaxAll(a, current, neighbours) ==
    IF a.pc = "raised" \/ neighbours = <<>> THEN a
    ELSE RelaxAll(Relax(a, current, Head(neighbours)), current, Tail(neighbours))

\* find_path up to the loop, on nodes whose g_score attributes are g_score
NewSearchOn(g, goal, start, g_score) ==
    [pc |-> "search", err |-> "none", graph |-> g, goal |-> goal, start |-> start,
     open_set |-> {start}, closed_set |-> {},
     path |-> [n \in Nodes |-> None],
     f_scored |-> <<<<0, start>>>>,
     g_score |-> g_score,
     popped |-> <<>>, result |-> <<>>]

\* AStarNode.g_score = 0: the class attribute a fresh node answers with
FreshScores == [n \in Nodes |-> 0]

\* find_path up to the loop: the start node open, on the heap with f = 0
NewSearch(g, goal, start) == NewSearchOn(g, goal, start, FreshScores)

\* one pass of `while open_set`
Iteration(a) ==
    LET top == HeapPop(a.f_scored, a.graph.ordered)
        current == top.item[2]
        taken == [a EXCEPT !.f_scored = top.heap, !.popped = Append(@, current)]
    IN IF top.err # "none" THEN [a EXCEPT !.pc = "raised", !.err = top.err]
       ELSE IF current \notin a.open_set
       THEN [taken EXCEPT !.pc = "raised", !.err = "KeyError"]
       ELSE LET closed == [taken EXCEPT !.open_set = @ \ {current},
                                        !.closed_set = @ \cup {current}]
            IN IF IsFinished(current, a.goal)
               THEN [closed EXCEPT !.pc = "returned",
                                   !.result = ReconstructPath(current, closed.path, <<>>)]
               ELSE RelaxAll(closed, current, SetToSeq(Neighbours(a.graph.cost, current)))

\* while open_set: pop the best node, close it, finish or relax its neighbours
AStarIterate ==
    /\ astar.pc = "search"
    /\ astar.open_set # {}
    /\ astar' = IF astar.f_scored = <<>>
                THEN [astar EXCEPT !.pc = "raised", !.err = "IndexError"]
                ELSE Iteration(astar)
    /\ UNCHANGED <<sigVars, valVars, funnel, pathfinder>>

\* the loop ends with the open set empty: raise PathNotFoundException
AStarExhausted ==
    /\ astar.pc = "search"
    /\ astar.open_set = {}
    /\ astar' = [astar EXCEPT !.pc = "raised", !.err = "PathNotFoundException"]
    /\ UNCHANGED <<sigVars, valVars, funnel, pathfinder>>

\* find_path(goal, start) is called on fresh nodes of some graph
InitAStar ==
    /\ InitSignals
    /\ InitValueIdle
    /\ \E c \in Costs, ordered \in BOOLEAN :
          \E h \in Heuristics(c, 4) :
              astar = NewSearch([cost |-> c, h |-> h, ordered |-> ordered], 4, 1)
    /\ funnel = [pc |-> "idle"]
    /\ pathfinder = [pc |-> "idle"]

NextAStar == AStarIterate \/ AStarExhausted

SpecAStar == InitAStar /\ [][NextAStar]_vars

-----------------------------------------------------------------------------
(* Claims about A*, checked under SpecAStar *)

\* total edge cost of a node sequence; Inf when a step is not an edge
RECURSIVE PathCost(_, _)
PathCost(cost, p) ==
    IF Len(p) < 2 THEN 0
    ELSE IF <<p[1], p[2]>> \notin GraphEdges \/ cost[<<p[1], p[2]>>] = None THEN Inf
    ELSE cost[<<p[1], p[2]>>] + PathCost(cost, Tail(p))

AStarEnded == astar.pc \in {"returned", "raised"}

GoalReachable == ShortestCost(astar.graph.cost, astar.goal)[astar.start] < Inf

\* C11: when the goal is reachable from start, find_path returns, and the
\* edge costs of the returned path add up to the cost of a cheapest path
AStarReturnsCheapestPath ==
    (AStarEnded /\ GoalReachable) =>
        /\ astar.pc = "returned"
        /\ PathCost(astar.graph.cost, astar.result)
              = ShortestCost(astar.graph.cost, astar.goal)[astar.start]

\* C12: when the goal is not reachable from start, find_path ends by raising
\* PathNotFoundException, with the open set empty, and in no other way
AStarExhaustsToPathNotFound ==
    (AStarEnded /\ ~GoalReachable) =>
        /\ astar.pc = "raised"
        /\ astar.err = "PathNotFoundException"
        /\ astar.open_set = {}

-----------------------------------------------------------------------------
(* Funnel: FunnelAlgorithm.find_path and Funnel.update over a portal sequence *)

\* longest corridor: the number of portals between its nodes
MaxPortals == 2

\* triangle_area_squared(a, b, c): the cross product of b - a and c - a, not
\* negative when c lies on the ray from a through b or to its right
TriangleAreaSquared(a, b, c) ==
    (c[1] - a[1]) * (b[2] - a[2]) - (b[1] - a[1]) * (c[2] - a[2])

\* BidirectionalIterator(portals).index before the first next()
IteratorStart == 0 - 1

\* EndPortal(destination, destination)
EndPortal(destination) == [left |-> destination, right |-> destination]

\* the portals of `look_ahead(nodes)`, then the end portal
Portals(c) == c.portals \o <<EndPortal(c.destination)>>

NoCorner == <<>>

\* a corridor of width 4 running up the y axis, its walls at x = 0 and x = 4
StraightCorridors ==
    {[kind |-> "straight", corner |-> NoCorner,
      source |-> <<sx, 0>>, destination |-> <<dx, n + 1>>,
      portals |-> [i \in 1..n |-> [left |-> <<0, i>>, right |-> <<4, i>>]]] :
        sx \in 1..3, dx \in 1..3, n \in 0..MaxPortals}

\* a corridor that runs up to y = 2 and turns right around the vertex (4, 2);
\* lead portals in the first leg, then the two portals that share the vertex
RightTurns ==
    {[kind |-> "corner", corner |-> <<4, 2>>,
      source |-> <<sx, 0>>, destination |-> <<6, dy>>,
      portals |-> [i \in 1..lead |-> [left |-> <<0, 1>>, right |-> <<4, 1>>]]
                  \o <<[left |-> <<0, 2>>, right |-> <<4, 2>>],
                       [left |-> <<4, 6>>, right |-> <<4, 2>>]>>] :
        sx \in 1..3, dy \in 3..5, lead \in 0..(MaxPortals - 1)}

\* the same corridor seen in a mirror: x becomes 4 - x, left and right change places
Mirror(c) ==
    LET M(p) == <<4 - p[1], p[2]>>
    IN [kind |-> c.kind, corner |-> M(c.corner),
        source |-> M(c.source), destination |-> M(c.destination),
        portals |-> [i \in DOMAIN c.portals |->
                        [left |-> M(c.portals[i].right), right |-> M(c.portals[i].left)]]]

LeftTurns == {Mirror(c) : c \in RightTurns}

\* any portals at all between the corners of a unit square
GridPoints == {<<x, y>> : x \in 0..1, y \in 0..1}

AnyPortals ==
    UNION {[1..n -> [left : GridPoints, right : GridPoints]] : n \in 0..MaxPortals}

AnyCorridors ==
    {[kind |-> "any", corner |-> NoCorner, source |-> s, destination |-> d, portals |-> ps] :
        s \in GridPoints, d \in GridPoints, ps \in AnyPortals}

Corridors == StraightCorridors \cup RightTurns \cup LeftTurns \cup AnyCorridors

\* FunnelAlgorithm.find_path up to funnel.update: path = [source], the portals,
\* Funnel(source, source, source, path.append), the iterator and its indices
NewFunnel(c) ==
    [pc |-> "update", kind |-> c.kind, corner |-> c.corner,
     source |-> c.source, destination |-> c.destination, portals |-> Portals(c),
     apex |-> c.source, left |-> c.source, right |-> c.source,
     index |-> IteratorStart, left_index |-> IteratorStart, right_index |-> IteratorStart,
     path |-> <<c.source>>, commits |-> <<>>, restarts |-> <<>>]

\* the apex setter: store the value and call on_apex_changed, here path.append
SetApex(f, value) ==
    [f EXCEPT !.apex = value, !.path = Append(@, value),
              !.commits = Append(@, [apex |-> value, at |-> f.index])]

\* a left side that commits its own boundary as the apex
LeftSideCommitsLeft(f, portal) ==
    IF TriangleAreaSquared(f.apex, f.left, portal.left) >= 0
    THEN IF f.apex = f.left \/ TriangleAreaSquared(f.apex, f.right, portal.left) < 0
         THEN [f |-> [f EXCEPT !.left = portal.left, !.left_index = f.index], continue |-> FALSE]
         ELSE [f |-> [SetApex([f EXCEPT !.right = f.left], f.left)
                         EXCEPT !.index = f.left_index],
               continue |-> TRUE]
    ELSE [f |-> f, continue |-> FALSE]

\* the left half of the loop body: narrow the left side, or commit the right
\* boundary as the apex and go back to the portal that set it
LeftSide(f, portal) ==
    IF TriangleAreaSquared(f.apex, f.left, portal.left) >= 0
    THEN IF f.apex = f.left \/ TriangleAreaSquared(f.apex, f.right, portal.left) < 0
         THEN [f |-> [f EXCEPT !.left = portal.left, !.left_index = f.index], continue |-> FALSE]
         ELSE [f |-> [SetApex([f EXCEPT !.left = f.right], f.right)
                         EXCEPT !.index = f.right_index],
               continue |-> TRUE]
    ELSE [f |-> f, continue |-> FALSE]

\* a right half that commits the left boundary and goes on with the next portal
RightSideGoesOn(f, portal) ==
    IF TriangleAreaSquared(f.apex, f.right, portal.right) <= 0
    THEN IF f.apex = f.right \/ TriangleAreaSquared(f.apex, f.left, portal.right) > 0
         THEN [f EXCEPT !.right = portal.right, !.right_index = f.index]
         ELSE SetApex([f EXCEPT !.right = f.left], f.left)
    ELSE f

\* the right half of the loop body: narrow the right side, or commit the left
\* boundary as the apex and go back to the portal that set it
RightSide(f, portal) ==
    IF TriangleAreaSquared(f.apex, f.right, portal.right) <= 0
    THEN IF f.apex = f.right \/ TriangleAreaSquared(f.apex, f.left, portal.right) > 0
         THEN [f EXCEPT !.right = portal.right, !.right_index = f.index]
         ELSE [SetApex([f EXCEPT !.right = f.left], f.left) EXCEPT !.index = f.left_index]
    ELSE f

\* a pass that goes back to the first portal whenever it commits an apex
FunnelStepFromFirst(f) ==
    LET advanced == [f EXCEPT !.index = @ + 1]
        portal == f.portals[advanced.index + 1]
        l == LeftSide(advanced, portal)
        passed == IF l.continue THEN l.f ELSE RightSide(l.f, portal)
    IN IF Len(passed.commits) > Len(f.commits)
       THEN [passed EXCEPT !.index = 0, !.restarts = Append(@, 0)]
       ELSE passed

\* next(portals), then the loop body of Funnel.update; restarts keeps the
\* index each committing pass has set the iterator to
FunnelStep(f) ==
    LET advanced == [f EXCEPT !.index = @ + 1]
        portal == f.portals[advanced.index + 1]
        l == LeftSide(advanced, portal)
        passed == IF l.continue THEN l.f ELSE RightSide(l.f, portal)
    IN IF Len(passed.commits) > Len(f.commits)
       THEN [passed EXCEPT !.restarts = Append(@, passed.index)]
       ELSE passed

\* a return that leaves the destination to the end portal
FunnelReturnAsCommitted(f) == [f EXCEPT !.pc = "returned"]

\* after funnel.update: path.append(destination); return path
FunnelReturn(f) == [f EXCEPT !.pc = "returned", !.path = Append(@, f.destination)]

\* for portal in portals: one pass
FunnelIterate ==
    /\ funnel.pc = "update"
    /\ funnel.index + 1 < Len(funnel.portals)
    /\ funnel' = FunnelStep(funnel)
    /\ UNCHANGED <<sigVars, valVars, astar, pathfinder>>

\* the iterator is exhausted: update returns and find_path returns the path
FunnelFinish ==
    /\ funnel.pc = "update"
    /\ funnel.index + 1 >= Len(funnel.portals)
    /\ funnel' = FunnelReturn(funnel)
    /\ UNCHANGED <<sigVars, valVars, astar, pathfinder>>

\* FunnelAlgorithm.find_path(source, destination, nodes) is called for some corridor
InitFunnel ==
    /\ InitSignals
    /\ InitValueIdle
    /\ astar = [pc |-> "idle"]
    /\ \E c \in Corridors : funnel = NewFunnel(c)
    /\ pathfinder = [pc |-> "idle"]

NextFunnel == FunnelIterate \/ FunnelFinish

SpecFunnel == InitFunnel /\ [][NextFunnel]_vars

-----------------------------------------------------------------------------
(* Claims about the funnel, checked under SpecFunnel *)

\* the straight segment from source to destination crosses every portal
\* between its left and its right point
SegmentInside(f) ==
    \A i \in DOMAIN f.portals :
        /\ TriangleAreaSquared(f.source, f.destination, f.portals[i].left) <= 0
        /\ TriangleAreaSquared(f.source, f.destination, f.portals[i].right) >= 0

\* C13: for a straight corridor with source and destination inside, the
\* returned path is exactly source, destination
StraightCorridorTwoPoints ==
    (funnel.pc = "returned" /\ funnel.kind = "straight") =>
        funnel.path = <<funnel.source, funnel.destination>>

\* C14: for a corridor with one turn whose straight segment leaves the
\* corridor, the returned path has the vertex of the turn strictly between
\* its first and its last point
CornerVertexOnPath ==
    (funnel.pc = "returned" /\ funnel.kind = "corner" /\ ~SegmentInside(funnel)) =>
        \E i \in 2..(Len(funnel.path) - 1) : funnel.path[i] = funnel.corner

\* C14 witness: a left turn behind a lead portal, cut at its vertex
CornerCutAtVertex ==
    /\ funnel.pc = "returned"
    /\ funnel.kind = "corner"
    /\ funnel.corner = <<0, 2>>
    /\ Len(funnel.portals) = 4
    /\ ~SegmentInside(funnel)
    /\ funnel.path[2] = funnel.corner
    /\ Len(funnel.commits) >= 1

\* C15: whatever the portals, the returned path starts with source and ends
\* with destination
PathEndsAtEndpoints ==
    funnel.pc = "returned" =>
        /\ funnel.path[1] = funnel.source
        /\ funnel.path[Len(funnel.path)] = funnel.destination

\* C15 witness: portals of no corridor, an apex committed that is neither
\* endpoint, and the end portal not committed
EndpointsAroundForeignApex ==
    /\ funnel.pc = "returned"
    /\ funnel.kind = "any"
    /\ Len(funnel.commits) >= 1
    /\ \A i \in DOMAIN funnel.commits :
          funnel.commits[i].apex \notin {funnel.source, funnel.destination}

-----------------------------------------------------------------------------
(* Hierarchical pathfinder: PathfinderAlgorithm.find_path *)

\* world positions a path is requested between
Positions == {<<"at", x>> : x \in 0..3}

\* spatial_lookup(position): the coarse node that contains it
SpatialLookup(position) == <<"node", position[2] \div 2>>

\* what the configured low-fidelity find_path does with a request
LowOutcomes == {"direct", "detour", "PathNotFoundException"}

\* low_resolution.find_path(source_node, destination_node, nodes): a corridor
LowFindPath(source_node, destination_node, outcome) ==
    IF outcome = "detour" THEN <<source_node, <<"node", 2>>, destination_node>>
    ELSE <<source_node, destination_node>>

\* high_resolution.find_path(source, destination, corridor): a point list
HighFindPath(source, destination, corridor) ==
    <<source>> \o [i \in 1..(Len(corridor) - 1) |-> <<"portal", corridor[i], corridor[i + 1]>>]
               \o <<destination>>

\* PathfinderAlgorithm(low_fidelity, high_fidelity, spatial_lookup).find_path(
\*     source, destination, nodes, low_resolution) is entered
NewRequest(low_has, high_has, outcome, source, destination, low_resolution) ==
    [pc |-> "lookup", err |-> "none",
     low_has_find_path |-> low_has, high_has_find_path |-> high_has, low_outcome |-> outcome,
     source |-> source, destination |-> destination, low_resolution |-> low_resolution,
     source_node |-> <<>>, destination_node |-> <<>>,
     low_resolution_path |-> <<>>, calls |-> <<>>, result |-> <<>>]

\* source_node = spatial_lookup(source); destination_node = spatial_lookup(destination)
LookedUp(r) ==
    [r EXCEPT !.pc = "low",
              !.source_node = SpatialLookup(r.source),
              !.destination_node = SpatialLookup(r.destination)]

\* a low pass that searches between the positions themselves
LowPassOnPositions(r) ==
    IF ~r.low_has_find_path
    THEN [r EXCEPT !.pc = "raised", !.err = "AlgorithmNotImplementedException"]
    ELSE LET called == [r EXCEPT !.calls = Append(@, [algorithm |-> "low",
                                    args |-> <<r.source, r.destination>>])]
             corridor == LowFindPath(r.source, r.destination, r.low_outcome)
         IN IF r.low_outcome = "PathNotFoundException"
            THEN [called EXCEPT !.pc = "raised", !.err = r.low_outcome]
            ELSE IF r.low_resolution
            THEN [called EXCEPT !.pc = "returned", !.low_resolution_path = corridor,
                                !.result = corridor]
            ELSE [called EXCEPT !.pc = "high", !.low_resolution_path = corridor]

\* the low-fidelity pass: look find_path up, call it, return its corridor if asked to
LowPass(r) ==
    IF ~r.low_has_find_path
    THEN [r EXCEPT !.pc = "raised", !.err = "AlgorithmNotImplementedException"]
    ELSE LET called == [r EXCEPT !.calls = Append(@, [algorithm |-> "low",
                                    args |-> <<r.source_node, r.destination_node>>])]
             corridor == LowFindPath(r.source_node, r.destination_node, r.low_outcome)
         IN IF r.low_outcome = "PathNotFoundException"
            THEN [called EXCEPT !.pc = "raised", !.err = r.low_outcome]
            ELSE IF r.low_resolution
            THEN [called EXCEPT !.pc = "returned", !.low_resolution_path = corridor,
                                !.result = corridor]
            ELSE [called EXCEPT !.pc = "high", !.low_resolution_path = corridor]

\* the high-fidelity pass: look find_path up, call it on the corridor, return its path
HighPass(r) ==
    IF ~r.high_has_find_path
    THEN [r EXCEPT !.pc = "raised", !.err = "AlgorithmNotImplementedException"]
    ELSE [r EXCEPT !.pc = "returned",
                   !.calls = Append(@, [algorithm |-> "high",
                                        args |-> <<r.source, r.destination, r.low_resolution_path>>]),
                   !.result = HighFindPath(r.source, r.destination, r.low_resolution_path)]

PathfinderLookup ==
    /\ pathfinder.pc = "lookup"
    /\ pathfinder' = LookedUp(pathfinder)
    /\ UNCHANGED <<sigVars, valVars, astar, funnel>>

PathfinderLow ==
    /\ pathfinder.pc = "low"
    /\ pathfinder' = LowPass(pathfinder)
    /\ UNCHANGED <<sigVars, valVars, astar, funnel>>

PathfinderHigh ==
    /\ pathfinder.pc = "high"
    /\ pathfinder' = HighPass(pathfinder)
    /\ UNCHANGED <<sigVars, valVars, astar, funnel>>

\* a pathfinder is configured and asked for a path
InitPathfinder ==
    /\ InitSignals
    /\ InitValueIdle
    /\ astar = [pc |-> "idle"]
    /\ funnel = [pc |-> "idle"]
    /\ \E low_has \in BOOLEAN, high_has \in BOOLEAN, outcome \in LowOutcomes,
          source \in Positions, destination \in Positions, low_resolution \in BOOLEAN :
          pathfinder = NewRequest(low_has, high_has, outcome, source, destination, low_resolution)

NextPathfinder == PathfinderLookup \/ PathfinderLow \/ PathfinderHigh

SpecPathfinder == InitPathfinder /\ [][NextPathfinder]_vars

-----------------------------------------------------------------------------
(* Claims about the pathfinder, checked under SpecPathfinder *)

LowCall(r) ==
    [algorithm |-> "low", args |-> <<SpatialLookup(r.source), SpatialLookup(r.destination)>>]

\* C16: a request with low_resolution returns the corridor the low-fidelity
\* algorithm gave for the nodes of source and destination and calls nothing
\* else; without it, the high-fidelity algorithm is called after the
\* low-fidelity one, with source, destination and that corridor, and its
\* path is returned
LowThenHigh ==
    pathfinder.pc = "returned" =>
        LET corridor == LowFindPath(SpatialLookup(pathfinder.source),
                                    SpatialLookup(pathfinder.destination),
                                    pathfinder.low_outcome)
        IN IF pathfinder.low_resolution
           THEN /\ pathfinder.result = corridor
                /\ pathfinder.calls = <<LowCall(pathfinder)>>
           ELSE /\ pathfinder.calls =
                      <<LowCall(pathfinder),
                        [algorithm |-> "high",
                         args |-> <<pathfinder.source, pathfinder.destination, corridor>>]>>
                /\ pathfinder.result =
                      HighFindPath(pathfinder.source, pathfinder.destination, corridor)

\* C16 witness: a refined path over a three-node corridor between two
\* positions of different nodes
RefinedOverDetour ==
    /\ pathfinder.pc = "returned"
    /\ ~pathfinder.low_resolution
    /\ pathfinder.source = <<"at", 1>> /\ pathfinder.destination = <<"at", 3>>
    /\ Len(pathfinder.low_resolution_path) = 3
    /\ Len(pathfinder.calls) = 2
    /\ pathfinder.result # pathfinder.low_resolution_path

\* C17: when either configured algorithm has no find_path, every request,
\* also one with low_resolution, ends with AlgorithmNotImplementedException
MisconfiguredAlwaysFails ==
    (pathfinder.pc \in {"returned", "raised"}
        /\ (~pathfinder.low_has_find_path \/ ~pathfinder.high_has_find_path)) =>
        /\ pathfinder.pc = "raised"
        /\ pathfinder.err = "AlgorithmNotImplementedException"

-----------------------------------------------------------------------------
(* SignalListener: register_signals, register_child, unregister_child *)

\* listener objects: instances of SignalListener subclasses
Listeners == {1, 2}

\* lookup_dict[listener.__class__]: the names of the marked callbacks
SignalCallbacks(listener) ==
    CASE listener = 2 -> <<"on_hit">>
      [] listener = 1 -> <<"on_hit", "on_tick">>
      [] OTHER -> <<>>

\* the signals of every callback of signal_store, in iteration order
RECURSIVE SignalsFrom(_, _)
SignalsFrom(callbacks, i) ==
    IF i > Len(callbacks) THEN <<>>
    ELSE Declared(callbacks[i]) \o SignalsFrom(callbacks, i + 1)

StoreSignals(signal_store) == SignalsFrom(SignalCallbacks(signal_store), 1)

\* for signal in ...: signal.set_parent(child, self)
RECURSIVE SetParents(_, _, _, _, _)
SetParents(w, signals, child, parent, i) ==
    IF i > Len(signals) THEN w
    ELSE SetParents(SetParentOp(w, signals[i].cls, child, parent), signals, child, parent, i + 1)

\* for signal in ...: signal.remove_parent(child, self)
RECURSIVE RemoveParents(_, _, _, _, _)
RemoveParents(w, signals, child, parent, i) ==
    IF i > Len(signals) THEN w
    ELSE RemoveParents(RemoveParentOp(w, signals[i].cls, child, parent), signals, child, parent, i + 1)

\* self.register_child(child, greedy=greedy)
RegisterChildOp(w, parent, child, greedy) ==
    LET own == SetParents(w, StoreSignals(parent), child, parent, 1)
    IN IF greedy THEN SetParents(own, StoreSignals(child), child, parent, 1) ELSE own

\* self.unregister_child(child, greedy=greedy)
UnregisterChildOp(w, parent, child, greedy) ==
    LET own == RemoveParents(w, StoreSignals(parent), child, parent, 1)
    IN IF greedy THEN RemoveParents(own, StoreSignals(child), child, parent, 1) ELSE own

\* self.register_signals(): Signal.subscribe(self, callback) for every callback
RECURSIVE RegisterSignalsFrom(_, _, _)
RegisterSignalsFrom(w, listener, i) ==
    IF i > Len(SignalCallbacks(listener)) THEN w
    ELSE RegisterSignalsFrom(SubscribeOp(w, listener, SignalCallbacks(listener)[i]), listener, i + 1)

RegisterSignals(listener) ==
    /\ LET w == RegisterSignalsFrom(World(reg, batch), listener, 1)
       IN Done(w, w.batch, Call("register_signals", "", listener, "", None))
    /\ UNCHANGED serial

RegisterChild(parent, child, greedy) ==
    /\ LET w == RegisterChildOp(World(reg, batch), parent, child, greedy)
       IN Done(w, w.batch, Call(IF greedy THEN "register_child_greedy" ELSE "register_child",
                                "", child, "", parent))
    /\ UNCHANGED serial

UnregisterChild(parent, child, greedy) ==
    /\ LET w == UnregisterChildOp(World(reg, batch), parent, child, greedy)
       IN Done(w, w.batch, Call("unregister_child", "", child, "", parent))
    /\ UNCHANGED serial

\* a parent listener and a child listener that declares one signal more
NextListener ==
    \/ \E l \in Listeners : RegisterSignals(l)
    \/ \E greedy \in BOOLEAN : RegisterChild(2, 1, greedy)
    \/ \E greedy \in BOOLEAN : UnregisterChild(2, 1, greedy)
    \/ \E k \in {"DisconnectSignal", "CachedSignal"} : UpdateState(k)
    \/ \E k \in {"DisconnectSignal", "CachedSignal"} : InvokeSignalClass(k, 2)

SpecListener == Init /\ [][NextListener]_vars

-----------------------------------------------------------------------------
(* Claims about SignalListener, checked under SpecListener *)

\* the classes register_child is said to register the child for
RegisteredClasses(parent, child, greedy) ==
    {StoreSignals(parent)[i].cls : i \in DOMAIN StoreSignals(parent)}
        \cup (IF greedy THEN {StoreSignals(child)[i].cls : i \in DOMAIN StoreSignals(child)} ELSE {})

IsChild(ch, child, parent) == parent \in DOMAIN ch /\ child \in ch[parent]

\* C18: register_child stages the child under the parent for every class the
\* parent's callbacks declare (and the child's, when greedy); after the
\* update_state that follows the child is a live child of the parent; and an
\* invoke addressed to the parent calls the contextual subscriber of each of
\* its live children
RegisteredChildIsReached ==
    [][/\ last'.op \in {"register_child", "register_child_greedy"} =>
             \A k \in RegisteredClasses(last'.other, last'.id, last'.op = "register_child_greedy") :
                 IsChild(reg'[k].to_add_child, last'.id, last'.other)
       /\ (last.op \in {"register_child", "register_child_greedy"} /\ last'.op = "update_state") =>
             (IsChild(reg[last'.cls].to_add_child, last.id, last.other) =>
                 IsChild(reg'[last'.cls].children, last.id, last.other))
       /\ (last'.op = "invoke" /\ last'.other \in DOMAIN reg[last'.cls].children) =>
             \A c \in reg[last'.cls].children[last'.other] :
                 c \in Keys(reg[last'.cls].isolated_subscribers) =>
                     \E i \in DOMAIN fired' :
                         /\ fired'[i].ev = "call" /\ fired'[i].cls = last'.cls
                         /\ fired'[i].id = c /\ fired'[i].how = "targeted"]_vars

-----------------------------------------------------------------------------
(* Callbacks that raise, checked under SpecRaise *)

\* global listeners around one whose callback raises, a listener on the
\* root class and a contextual listener
RaiseInputs ==
    [subs |-> {<<1, "on_disconnect">>, <<2, "on_error">>, <<0, "on_disconnect">>,
               <<1, "on_signal">>, <<2, "on_damage">>},
     unsubs |-> {<<2, "on_error">>},
     edgeClasses |-> {"DisconnectSignal"},
     adds |-> {<<1, 2>>},
     removes |-> {<<1, 2>>},
     updated |-> {"DisconnectSignal", "Signal"},
     invoked |-> {"DisconnectSignal"},
     targets |-> {None, 2}]

NextRaise == NextIn(RaiseInputs)

SpecRaise == Init /\ [][NextRaise]_vars

Raises(cb) == Effect(cb).op = "raise"

\* the registry and the queues after the bodies of the callbacks called
\* before position n of a pass have run
RECURSIVE EffectsBefore(_, _, _, _)
EffectsBefore(w, events, i, n) ==
    IF i >= n THEN w
    ELSE EffectsBefore(IF events[i].ev = "call" THEN RunEffect(w, events[i].cb) ELSE w,
                       events, i + 1, n)

\* the live registry and the pending queues of every class
Registry(r) == [k \in Classes |-> [r[k] EXCEPT !.cache = <<>>]]

\* C19: when a callback raises during invoke, the invoke raises, the failing
\* call is the last thing the pass does (no later subscriber of the class, no
\* superclass), and registry and queues are what the callbacks called before
\* it left
RaiseEndsThePass ==
    [][last'.op = "invoke" =>
          \A i \in DOMAIN fired' :
              (fired'[i].ev = "call" /\ Raises(fired'[i].cb)) =>
                  /\ raised' = "CallbackError"
                  /\ i = Len(fired')
                  /\ LET before == EffectsBefore(World(reg, batch), fired', 1, i)
                     IN /\ Registry(reg') = Registry(before.reg)
                        /\ batch' = before.batch]_vars

\* C19 witness: a callback that staged a call ran, the next one raised, and a
\* later global subscriber of the class was not called
RaisedMidPass ==
    /\ last.op = "invoke"
    /\ raised = "CallbackError"
    /\ \E i \in DOMAIN fired : fired[i].ev = "call" /\ Effect(fired[i].cb).op = "unsubscribe"
    /\ \E j \in DOMAIN reg[last.cls].subscribers :
          \A i \in DOMAIN fired : fired[i].id # reg[last.cls].subscribers[j].id

-----------------------------------------------------------------------------
(* Child additions, checked under SpecDispatch *)

\* C20: update_state merges the staged children of a parent into its live
\* children: with no removal staged for the parent, its child set afterwards
\* is the live set joined with the staged set
ChildAdditionsMerge ==
    [][last'.op = "update_state" =>
          LET r == reg[last'.cls]
          IN \A p \in DOMAIN r.to_add_child :
                 (\A e \in r.to_remove_child : e[2] # p) =>
                     /\ p \in DOMAIN reg'[last'.cls].children
                     /\ reg'[last'.cls].children[p] =
                            (IF p \in DOMAIN r.children THEN r.children[p] ELSE {})
                                \cup r.to_add_child[p]]_vars

-----------------------------------------------------------------------------
(* Unsubscribed identifiers and the forest, checked under SpecDispatch *)

\* identifier is a parent or a child in the children map ch
InForest(ch, id) == id \in DOMAIN ch \/ \E p \in DOMAIN ch : id \in ch[p]

\* C21: after unsubscribe(identifier, callback) and the update_state that
\* follows, identifier is neither a parent nor a child in the children map of
\* a class the callback declares, whatever was staged before the unsubscribe
UnsubscribedLeavesForest ==
    [][(last.op = "unsubscribe" /\ last'.op = "update_state"
            /\ last'.cls \in DeclaredClasses(last.cb)) =>
          ~InForest(reg'[last'.cls].children, last.id)]_vars

-----------------------------------------------------------------------------
(* update_state and the pending queues, checked under SpecListener *)

\* the six pending queues of a class are empty
QueuesEmpty(r) ==
    /\ r.to_subscribe_global = <<>>
    /\ r.to_subscribe_context = <<>>
    /\ r.to_unsubscribe_global = <<>>
    /\ r.to_unsubscribe_context = <<>>
    /\ r.to_add_child = EmptyMap
    /\ r.to_remove_child = {}

\* C22: update_state never raises and leaves the six pending queues of its
\* class empty, also when a staged removal names an edge that is not live
UpdateStateDrainsQueues ==
    [][last'.op = "update_state" =>
          /\ raised' = "none"
          /\ QueuesEmpty(reg'[last'.cls])]_vars

-----------------------------------------------------------------------------
(* The shape of the children map, checked under SpecForest *)

\* set_parent with any pair of identifiers, a contextual listener, a target
ForestInputs ==
    [subs |-> {<<1, "on_hit">>},
     unsubs |-> {<<1, "on_hit">>},
     edgeClasses |-> {"DisconnectSignal"},
     adds |-> {<<1, 2>>, <<2, 1>>, <<1, 0>>},
     removes |-> {<<1, 2>>},
     updated |-> {"DisconnectSignal"},
     invoked |-> {"DisconnectSignal"},
     targets |-> {2}]

NextForest == NextIn(ForestInputs)

SpecForest == Init /\ [][NextForest]_vars

\* C23: the live children map of every class is a forest in every reachable
\* state (no identifier below itself, none with two parents), and the descent
\* of targeted dispatch terminates
ChildrenIsForest ==
    /\ \A k \in Classes : IsForest(reg[k].children)
    /\ raised # "RecursionError"

-----------------------------------------------------------------------------
(* Removing children from a live forest, checked under SpecPrune *)

\* a chain the calls set_parent(1, 2); set_parent(0, 1); update_state() leave
LiveChain == [p \in {1, 2} |-> IF p = 2 THEN {1} ELSE {0}]

\* DisconnectSignal has the live chain 2 > 1 > 0, nothing is pending
InitLiveChain ==
    /\ reg = [k \in Classes |->
                IF k = "DisconnectSignal"
                THEN [EmptyRegistry EXCEPT !.children = LiveChain]
                ELSE EmptyRegistry]
    /\ batch = [k \in Classes |-> <<>>]
    /\ flushed = [k \in Classes |-> [notes |-> <<>>, global |-> {}, context |-> {}]]
    /\ hist = [k \in Classes |-> <<>>]
    /\ fired = <<>>
    /\ raised = "none"
    /\ serial = 0
    /\ nops = 0
    /\ last = Call("none", "", None, "", None)
    /\ InitValueIdle
    /\ InitPathIdle

SpecPrune == InitLiveChain /\ [][Next]_vars

\* C24: no key of a live children map has an empty child set: a parent whose
\* last child is removed is dropped from the map
NoEmptyChildSet ==
    \A k \in Classes : \A p \in DOMAIN reg[k].children : reg[k].children[p] # {}

\* C24 witness: an update_state removed the only child of 2 and dropped 2,
\* while 1 keeps its child
ParentDropped ==
    /\ last.op = "update_state"
    /\ raised = "none"
    /\ DOMAIN reg["DisconnectSignal"].children = {1}
    /\ reg["DisconnectSignal"].children[1] = {0}

-----------------------------------------------------------------------------
(* Registries of different classes, checked under SpecCache *)

\* no callback was called in a pass
NoCalls(events) == \A i \in DOMAIN events : events[i].ev # "call"

\* C25: classes share no registry state: subscribe and unsubscribe change
\* only the classes the callback declares, set_parent, remove_parent and
\* update_state only the class they are called on; the live registry and the
\* cache of every other class stay as they were, and so do its pending
\* queues unless a callback called on the way staged something
ClassesShareNothing ==
    [][/\ last'.op \in {"subscribe", "unsubscribe"} =>
            \A k \in Classes \ DeclaredClasses(last'.cb) : reg'[k] = reg[k]
       /\ last'.op \in {"set_parent", "remove_parent", "update_state"} =>
            \A k \in Classes \ {last'.cls} :
                /\ LiveOf(reg')[k] = LiveOf(reg)[k]
                /\ reg'[k].cache = reg[k].cache
                /\ NoCalls(fired') => reg'[k] = reg[k]]_vars

-----------------------------------------------------------------------------
(* The cache of cached classes, checked under SpecCache *)

\* the classes an invoke on k reaches: k and its superclasses up to the root
ChainClasses(k) == {Chain(k)[i] : i \in DOMAIN Chain(k)}

\* C26: a cache grows only by fresh invocations: an invoke appends its one
\* entry to the cache of each cached class it reaches, and no other call,
\* the replay of update_state included, changes the cache of any class
CacheGrowsByFreshInvokes ==
    [][/\ last'.op = "invoke" =>
            \A k \in Classes :
                reg'[k].cache =
                    IF IsCached(k) /\ k \in ChainClasses(last'.cls)
                    THEN Append(reg[k].cache, [args |-> serial', target |-> last'.other])
                    ELSE reg[k].cache
       /\ last'.op # "invoke" =>
            \A k \in Classes : reg'[k].cache = reg[k].cache]_vars

\* a call made on class k during a replay pass that is not the replay to the
\* new subscriber itself
StrayCalls(events, added) ==
    SelectSeq(events, LAMBDA e : e.ev = "call" /\ ~(e.how = "replay" /\ e.id \in added))

\* C27: the replay of update_state calls the newly added global subscriber
\* only: no other subscriber of the class or of a superclass is called, and
\* an update_state that adds only contextual subscribers calls nothing
ReplayCallsNewSubscriberOnly ==
    [][(last'.op = "update_state" /\ IsCached(last'.cls)) =>
          /\ StrayCalls(fired', Keys(reg[last'.cls].to_subscribe_global)) = <<>>
          /\ reg[last'.cls].to_subscribe_global = <<>> => NoCalls(fired')]_vars

-----------------------------------------------------------------------------
(* The order of general dispatch, checked under Spec *)

\* the position of identifier id in the dict d
Index(d, id) == CHOOSE i \in DOMAIN d : d[i].id = id

\* the position of the first staged global subscribe of id among the notes
FirstSubscribe(notes, id) ==
    CHOOSE i \in DOMAIN notes :
        /\ notes[i] = Note("subscribe", id, FALSE)
        /\ \A j \in 1..(i - 1) : notes[j] # Note("subscribe", id, FALSE)

\* the identifiers an invoke on class k called in general dispatch, in order
GeneralOrder(events, k) ==
    LET calls == SelectSeq(events, LAMBDA e : e.ev = "call" /\ e.how = "general" /\ e.cls = k)
    IN [i \in DOMAIN calls |-> calls[i].id]

\* C28: general dispatch follows subscription order: update_state puts a new
\* global subscriber after those that were live, and new ones of one batch in
\* the order they were subscribed; invoke calls the subscribers in that order
DispatchInSubscriptionOrder ==
    [][/\ last'.op = "update_state" =>
            LET k == last'.cls
                old == reg[k].subscribers
                new == reg'[k].subscribers
            IN \A a, b \in Keys(new) :
                  /\ (a \in Keys(old) /\ b \notin Keys(old)) => Index(new, a) < Index(new, b)
                  /\ (a \notin Keys(old) /\ b \notin Keys(old)
                        /\ FirstSubscribe(batch[k], a) < FirstSubscribe(batch[k], b))
                       => Index(new, a) < Index(new, b)
       /\ (last'.op = "invoke" /\ raised' = "none") =>
            GeneralOrder(fired', last'.cls) =
                [i \in DOMAIN reg[last'.cls].subscribers |-> reg[last'.cls].subscribers[i].id]]_vars

-----------------------------------------------------------------------------
(* The arguments callbacks are called with, checked under SpecArgs *)

\* listeners with every kind of signature on a class and on the root, below
\* and above one another
ArgsInputs ==
    [subs |-> {<<1, "on_hit">>, <<2, "on_damage">>, <<2, "on_disconnect">>, <<1, "on_signal">>},
     unsubs |-> {<<1, "on_signal">>},
     edgeClasses |-> {"DisconnectSignal"},
     adds |-> {<<1, 2>>},
     removes |-> {<<1, 2>>},
     updated |-> {"DisconnectSignal", "Signal"},
     invoked |-> {"DisconnectSignal"},
     targets |-> {None, 2}]

\* keyword arguments given to invoke besides target
ExtraKwargs == {[n \in {"damage"} |-> 5], [n \in {"damage", "source"} |-> IF n = "damage" THEN 7 ELSE 1]}

NextArgs ==
    \/ NextIn(ArgsInputs)
    \/ \E t \in {None, 2}, kw \in ExtraKwargs : InvokeKwargs("DisconnectSignal", t, kw)

SpecArgs == Init /\ [][NextArgs]_vars

\* callback cb is what the registry of class k holds for id in the scope of the call
Registered(r, k, id, cb, how) ==
    LET d == IF how = "targeted" THEN r[k].isolated_subscribers ELSE r[k].subscribers
    IN id \in Keys(d) /\ DictGet(d, id) = cb

-----------------------------------------------------------------------------
(* One entry per identifier and scope, checked under SpecRebind *)

\* one identifier subscribed with two callbacks in each scope of a class
RebindInputs ==
    [subs |-> {<<1, "on_disconnect">>, <<1, "on_error">>, <<1, "on_damage">>, <<1, "on_hit">>},
     unsubs |-> {<<1, "on_disconnect">>, <<1, "on_error">>, <<1, "on_damage">>, <<1, "on_hit">>},
     edgeClasses |-> {"DisconnectSignal"},
     adds |-> {<<0, 1>>},
     removes |-> {<<0, 1>>},
     updated |-> {"DisconnectSignal"},
     invoked |-> {"DisconnectSignal"},
     targets |-> {None, 1}]

NextRebind == NextIn(RebindInputs)

SpecRebind == Init /\ [][NextRebind]_vars

\* the live dict of a scope
LiveDict(r, is_context) == IF is_context THEN r.isolated_subscribers ELSE r.subscribers

\* the pending dict of a scope
StagedDict(r, is_context) == r[SubscribeQueue(is_context)]

\* the identifiers whose removal from a scope is pending
StagedRemovals(r, is_context) ==
    {r[RemoveList(is_context)][i] : i \in DOMAIN r[RemoveList(is_context)]}

OneEntryEach(d) == \A i, j \in DOMAIN d : d[i].id = d[j].id => i = j

\* C30: a class holds at most one entry per identifier and scope; subscribe
\* leaves the callback it was given as the identifier's staged entry, whatever
\* was staged before; update_state makes the staged callback the identifier's
\* live entry in place of the one it had, and removes the entry of every
\* identifier an unsubscribe named for that scope, whichever callback the
\* unsubscribe was given; invoke calls only the callbacks of live entries
OneEntryPerIdentifier ==
    [][/\ \A k \in Classes, ctx \in BOOLEAN :
             OneEntryEach(LiveDict(reg'[k], ctx)) /\ OneEntryEach(StagedDict(reg'[k], ctx))
       /\ last'.op = "subscribe" =>
             \A i \in DOMAIN Declared(last'.cb) :
                LET d == Declared(last'.cb)[i]
                    staged == StagedDict(reg'[d.cls], d.ctx)
                IN last'.id \in Keys(staged) /\ DictGet(staged, last'.id) = last'.cb
       /\ last'.op = "update_state" =>
             \A ctx \in BOOLEAN, id \in Ids :
                LET before == LiveDict(reg[last'.cls], ctx)
                    after == LiveDict(reg'[last'.cls], ctx)
                    staged == StagedDict(reg[last'.cls], ctx)
                IN IF id \in StagedRemovals(reg[last'.cls], ctx)
                   THEN id \notin Keys(after)
                   ELSE IF id \in Keys(staged)
                   THEN id \in Keys(after) /\ DictGet(after, id) = DictGet(staged, id)
                   ELSE /\ id \in Keys(after) <=> id \in Keys(before)
                        /\ id \in Keys(before) => DictGet(after, id) = DictGet(before, id)
       /\ last'.op = "invoke" =>
             \A i \in DOMAIN fired' :
                fired'[i].ev = "call" =>
                    Registered(reg, fired'[i].cls, fired'[i].id, fired'[i].cb, fired'[i].how)
      ]_vars

\* C30 witness: identifier 1 was live with on_disconnect, whose call staged a
\* removal on the root class, and update_state has replaced its entry with
\* on_error, the only global entry there is
ReboundToLastStaged ==
    /\ last.op = "update_state" /\ raised = "none"
    /\ reg["Signal"].to_unsubscribe_context # <<>>
    /\ reg["DisconnectSignal"].subscribers = <<[id |-> 1, cb |-> "on_error"]>>

-----------------------------------------------------------------------------
(* Duplicate queue entries, checked under SpecAStar *)

\* no node occurs twice in a sequence of nodes
NoRepeat(seq) == \A i, j \in DOMAIN seq : seq[i] = seq[j] => i = j

\* C31: a stale entry a relaxation left in the priority queue is harmless:
\* no pop fails on a node that is not open, the open and the closed set are
\* disjoint, and no node is popped and closed twice
StaleEntriesHarmless ==
    astar.pc # "idle" =>
        /\ astar.err # "KeyError"
        /\ astar.open_set \cap astar.closed_set = {}
        /\ NoRepeat(astar.popped)
        /\ \A i \in DOMAIN astar.popped :
              astar.popped[i] \in astar.closed_set \cup {astar.start}

-----------------------------------------------------------------------------
(* Two path requests on the same nodes of a graph with cycles, SpecAStarAgain *)

\* the directed edges of a graph with the cycles 1-2, 2-3 and 1-2-3
CyclicEdges == {<<1, 2>>, <<2, 1>>, <<1, 3>>, <<3, 1>>, <<2, 3>>, <<3, 2>>, <<2, 4>>, <<3, 4>>}

\* each edge is absent, cheap or dear
CyclicCosts == [CyclicEdges -> {None, 1, MaxCost}]

\* (start, goal) of the first request
FirstRequests == {<<1, 4>>, <<3, 1>>}

\* one pass of find_path's loop, or its end
AStarStep(a) ==
    IF a.open_set = {} THEN [a EXCEPT !.pc = "raised", !.err = "PathNotFoundException"]
    ELSE IF a.f_scored = <<>> THEN [a EXCEPT !.pc = "raised", !.err = "IndexError"]
    ELSE Iteration(a)

\* find_path from the loop to its return or raise
RECURSIVE RunSearch(_)
RunSearch(a) == IF a.pc # "search" THEN a ELSE RunSearch(AStarStep(a))

\* a second find_path(goal, start) on the nodes the first one left, from 1 to
\* 4; fresh is what the same call does on nodes nothing has searched
AStarAgain ==
    /\ astar.pc \in {"returned", "raised"}
    /\ "fresh" \notin DOMAIN astar
    /\ \E h \in Heuristics(astar.graph.cost, 4) :
          LET g == [astar.graph EXCEPT !.h = h]
              again == NewSearchOn(g, 4, 1, astar.g_score)
          IN astar' = [pc |-> again.pc, err |-> again.err, graph |-> again.graph,
                       goal |-> again.goal, start |-> again.start,
                       open_set |-> again.open_set, closed_set |-> again.closed_set,
                       path |-> again.path, f_scored |-> again.f_scored,
                       g_score |-> again.g_score, popped |-> again.popped,
                       result |-> again.result,
                       before |-> astar.g_score,
                       fresh |-> RunSearch(NewSearch(g, 4, 1))]
    /\ UNCHANGED <<sigVars, valVars, funnel, pathfinder>>

\* find_path(goal, start) is called on fresh nodes of some graph with cycles
InitAStarAgain ==
    /\ InitSignals
    /\ InitValueIdle
    /\ \E c \in CyclicCosts, ordered \in BOOLEAN, r \in FirstRequests :
          astar = NewSearch([cost |-> c, h |-> [n \in Nodes |-> 0], ordered |-> ordered],
                            r[2], r[1])
    /\ funnel = [pc |-> "idle"]
    /\ pathfinder = [pc |-> "idle"]

NextAStarAgain == AStarIterate \/ AStarExhausted \/ AStarAgain

SpecAStarAgain == InitAStarAgain /\ [][NextAStarAgain]_vars

\* C32: a returned path is in forward order: it starts with the start node,
\* the only node on it without a predecessor, ends with the node the goal
\* test succeeded at, each node is a neighbour of the one before it, and no
\* node occurs twice, so the walk along the predecessors ended by itself
PathIsForward ==
    astar.pc = "returned" =>
        LET result == astar.result
        IN /\ result # <<>>
           /\ result[1] = astar.start
           /\ \A i \in DOMAIN result : (astar.path[result[i]] = None) <=> (i = 1)
           /\ result[Len(result)] = astar.popped[Len(astar.popped)]
           /\ IsFinished(result[Len(result)], astar.goal)
           /\ \A i \in 1..(Len(result) - 1) :
                 /\ result[i + 1] \in Neighbours(astar.graph.cost, result[i])
                 /\ astar.path[result[i + 1]] = result[i]
           /\ NoRepeat(result)

\* C32 witness: a path of four nodes returned on a graph where every edge of
\* the cycles is present
ForwardThroughCycles ==
    /\ astar.pc = "returned"
    /\ astar.result = <<1, 2, 3, 4>>
    /\ \A e \in CyclicEdges \ {<<2, 4>>} : astar.graph.cost[e] # None

\* C33: a request on nodes that carry the g_score values an earlier request
\* wrote ends as the same request does on fresh nodes: with the same path
\* returned, or with the same exception raised
RequestsIndependent ==
    ("fresh" \in DOMAIN astar /\ astar.pc \in {"returned", "raised"}) =>
        /\ astar.pc = astar.fresh.pc
        /\ astar.err = astar.fresh.err
        /\ astar.result = astar.fresh.result
        /\ astar.popped = astar.fresh.popped

\* C33 witness: a path was returned on nodes of which the start and two more
\* carried scores of the first request, and a node was relaxed on the way
ReturnedOnUsedNodes ==
    /\ "fresh" \in DOMAIN astar
    /\ astar.pc = "returned"
    /\ astar.before[1] > 0
    /\ Cardinality({n \in Nodes : astar.before[n] > 0}) >= 3
    /\ astar.result = <<1, 2, 3, 4>>
    /\ astar.graph.cost[<<1, 3>>] # None

-----------------------------------------------------------------------------
(* The funnel's backtrack, checked under SpecFunnel *)

\* the left point of the portal is inside the left margin and narrows the funnel
LeftNarrows(f, portal) ==
    /\ TriangleAreaSquared(f.apex, f.left, portal.left) >= 0
    /\ f.apex = f.left \/ TriangleAreaSquared(f.apex, f.right, portal.left) < 0

\* the left point of the portal is inside the left margin and past the right boundary
LeftCrosses(f, portal) ==
    /\ TriangleAreaSquared(f.apex, f.left, portal.left) >= 0
    /\ f.apex # f.left
    /\ TriangleAreaSquared(f.apex, f.right, portal.left) >= 0

\* C34: a pass of Funnel.update that commits an apex calls the apex callback
\* once, with the point of the opposite boundary, leaves left and right at the
\* new apex, and sets the iterator back to the index at which the opposite
\* boundary was last set, so that the portal after that one is processed next
FunnelBacktracks ==
    [][(funnel.pc = "update" /\ funnel'.pc = "update"
            /\ Len(funnel'.commits) > Len(funnel.commits)) =>
          LET current == funnel.index + 1
              portal == funnel.portals[current + 1]
          IN /\ Len(funnel'.commits) = Len(funnel.commits) + 1
             /\ funnel'.path = Append(funnel.path, funnel'.apex)
             /\ funnel'.left = funnel'.apex
             /\ funnel'.right = funnel'.apex
             /\ funnel'.index <= current
             /\ IF LeftCrosses(funnel, portal)
                THEN funnel'.apex = funnel.right /\ funnel'.index = funnel.right_index
                ELSE IF LeftNarrows(funnel, portal)
                THEN funnel'.apex = portal.left /\ funnel'.index = current
                ELSE funnel'.apex = funnel.left /\ funnel'.index = funnel.left_index
      ]_vars

\* C34 witness: an apex has just been committed at a portal two or more after
\* the one that set the boundary, and the iterator is back at that one
BackTwoPortals ==
    /\ funnel.pc = "update"
    /\ funnel.commits # <<>>
    /\ funnel.commits[Len(funnel.commits)].at >= funnel.index + 2
    /\ funnel.commits[Len(funnel.commits)].apex = funnel.apex
    /\ funnel.left = funnel.apex /\ funnel.right = funnel.apex
    /\ funnel.index >= 0

-----------------------------------------------------------------------------
(* Termination of Funnel.update, checked under SpecFunnelFair *)

\* the corridors, and any portals at all before one corner of the square
PortalSequences ==
    StraightCorridors \cup RightTurns \cup LeftTurns
        \cup {[kind |-> "any", corner |-> NoCorner, source |-> s, destination |-> <<0, 0>>,
               portals |-> ps] : s \in GridPoints, ps \in AnyPortals}

\* FunnelAlgorithm.find_path is called for some sequence of portals
InitPortalSequences ==
    /\ InitSignals
    /\ InitValueIdle
    /\ astar = [pc |-> "idle"]
    /\ \E c \in PortalSequences : funnel = NewFunnel(c)
    /\ pathfinder = [pc |-> "idle"]

\* find_path runs Funnel.update to its end without giving up control
SpecFunnelFair == InitPortalSequences /\ [][NextFunnel]_vars /\ WF_vars(NextFunnel)

\* each restart index is a portal index greater than the one before it
RestartsClimb(f) ==
    /\ \A i \in DOMAIN f.restarts : f.restarts[i] \in 0..(Len(f.portals) - 1)
    /\ \A i \in 1..(Len(f.restarts) - 1) : f.restarts[i] < f.restarts[i + 1]

\* C35: the index Funnel.update goes back to after a commit is greater than
\* at the commit before, there are never more commits than portals, and
\* update comes to its end for every sequence of portals
FunnelTerminates ==
    /\ [](funnel.pc # "idle" =>
            /\ RestartsClimb(funnel)
            /\ Len(funnel.commits) = Len(funnel.restarts)
            /\ Len(funnel.commits) <= Len(funnel.portals))
    /\ <>(funnel.pc = "returned")

\* C35 witness: update has ended after two commits that went back to
\* different portals, the first of them to a portal before the current one
EndedAfterTwoRestarts ==
    /\ funnel.pc = "returned"
    /\ Len(funnel.restarts) = 2
    /\ funnel.restarts[1] < funnel.restarts[2]
    /\ funnel.commits[1].at > funnel.restarts[1]

=============================================================================
